---------------------------- MODULE Spec2Model ----------------------------
(***************************************************************************)
(* Terranova2025: the financing schedule generators (M3) and the junior    *)
(* cash-waterfall allocator (M7.5B).                                       *)
(*                                                                         *)
(* Amounts are Python floats in the source.  Here an amount is an exact    *)
(* rational <<numerator, denominator>> (denominator > 0, lowest terms), so *)
(* that every +, -, *, /, min and max of the source is computed as the     *)
(* source computes it, up to the floating-point rounding that the          *)
(* repository's own checks absorb with their 1e-6 tolerance.               *)
(***************************************************************************)
EXTENDS Integers, Sequences, FiniteSets, TLC

VARIABLES
    pc,                  \* which routine is running, or "returned"
    loan_params,         \* create_loan_schedule: the instrument row
    i,                   \* create_loan_schedule: loop index (rows filled so far)
    df,                  \* create_loan_schedule: the schedule data frame
    annuity_pmt,         \* create_loan_schedule: level payment, None until set
    straight_principal,  \* create_loan_schedule: equal instalment, None until set
    pv_at_amort_start,   \* create_loan_schedule: balance at window start, None until set
    fin_stack,           \* run_m3: the Finance_Stack input
    balance_open,        \* run_m3: revolver balance carried into the next month
    records,             \* run_m3: revolver rows emitted so far
    sel,                 \* run_m7_5b: m7_selected_offer.json
    junior_log,          \* run_m7_5b: m7_5_junior_financing.parquet as read
    df_j,                \* run_m7_5b: the junior flow frame the allocator works on
    df_m3,               \* run_m7_5b: m3_revolver_schedule.parquet, or None
    df_m4,               \* run_m7_5b: m4_tax_schedule.parquet, or None
    df_fx,               \* run_m7_5b: FX path, month -> USD to NAD (average)
    alloc,               \* run_m7_5b: per-period results computed so far
    warnings,            \* run_m7_5b: warnings logged so far
    error,               \* the exception that ended the run, or None
    raw_row,             \* create_loan_schedule: the instrument row as passed in
    prev_df,             \* the schedule returned by an earlier call, or None
    row,                 \* _create_revolver_schedule: the instrument row
    revolver_df,         \* _create_revolver_schedule: the schedule returned
    finance_stack_df,    \* create_financing_schedules: the instrument catalog
    pfinance_case_selector_df,  \* create_financing_schedules: Key/Value table
    rows,                \* create_financing_schedules: the filtered catalog rows
    r_pos,               \* create_financing_schedules: rows processed so far
    revolver_schedules,  \* create_financing_schedules: schedules collected
    insurance_schedules, \* create_financing_schedules: schedules collected
    outputs,             \* create_financing_schedules: dict returned by each call
    bs,                  \* tie check: the balance sheet checked, one row per period
    strict,              \* tie check: the runner's strict flag
    dbg,                 \* tie check: what the runner recorded, or None
    cf,                  \* cash link: the cash-flow statement, one row per period
    out_dir,             \* validators: the artifacts in the output directory, or None
    exit_code,           \* validators: the exit code returned, or None
    policy,              \* junior rebuild: the Policy passed in, or None
    out_cf               \* junior rebuild: the cash-flow rows built so far

loanVars == <<loan_params, i, df, annuity_pmt, straight_principal, pv_at_amort_start>>
m3Vars == <<fin_stack, balance_open, records>>
wfVars == <<sel, junior_log, df_j, df_m3, df_m4, df_fx, alloc, warnings>>
rawVars == <<raw_row, prev_df>>
costVars == <<row, revolver_df>>
engVars == <<finance_stack_df, pfinance_case_selector_df, rows, r_pos,
             revolver_schedules, insurance_schedules, outputs>>
tieVars == <<bs, strict, dbg, cf>>
valVars == <<out_dir, exit_code>>
jrVars == <<policy, out_cf>>
otherVars == <<rawVars, costVars, engVars, tieVars, valVars, jrVars>>
vars == <<pc, error, loanVars, m3Vars, wfVars, otherVars>>

---------------------------------------------------------------------------
(* Exact arithmetic standing for the source's float arithmetic.            *)

RECURSIVE GCD(_, _)
GCD(a, b) == IF b = 0 THEN a ELSE GCD(b, a % b)

Abs(x) == IF x < 0 THEN -x ELSE x

LCM(a, b) == (a \div GCD(a, b)) * b

Norm(n, d) ==
    LET g == GCD(Abs(n), Abs(d))
        s == IF d < 0 THEN -1 ELSE 1
    IN  <<(s * n) \div g, (s * d) \div g>>

R(n) == <<n, 1>>

Zero == R(0)

RAdd(x, y) ==
    LET l == LCM(x[2], y[2])
    IN  Norm(x[1] * (l \div x[2]) + y[1] * (l \div y[2]), l)

RNeg(x) == <<-x[1], x[2]>>

RSub(x, y) == RAdd(x, RNeg(y))

RMul(x, y) ==
    LET g1 == GCD(Abs(x[1]), y[2])
        g2 == GCD(Abs(y[1]), x[2])
    IN  Norm((x[1] \div g1) * (y[1] \div g2), (x[2] \div g2) * (y[2] \div g1))

RInv(x) == Norm(x[2], x[1])

RDiv(x, y) == RMul(x, RInv(y))

RLt(x, y) ==
    LET l == LCM(x[2], y[2])
    IN  x[1] * (l \div x[2]) < y[1] * (l \div y[2])

RLe(x, y) == ~RLt(y, x)

RMax(x, y) == IF RLt(x, y) THEN y ELSE x

RMin(x, y) == IF RLt(y, x) THEN y ELSE x

RECURSIVE RPow(_, _)
RPow(x, k) ==
    IF k = 0 THEN R(1)
    ELSE IF k < 0 THEN RInv(RPow(x, -k))
    ELSE RMul(x, RPow(x, k - 1))

Min(a, b) == IF a < b THEN a ELSE b

Max(a, b) == IF a > b THEN a ELSE b

None == <<>>

---------------------------------------------------------------------------
(* Bounds and input sets.                                                  *)

MaxHorizon == 4

MaxGrace == 2

Principals == {-12, 0, 12}

\* Rate_Pct values; 600 % a year is 1/2 a month: large on purpose, so that
\* interest is visible within a schedule of a few months.
RatePcts == {-600, 0, 600}

AmortTypes == {"annuity", "straight", "bullet", "other"}

horizon == MaxHorizon

LoanRows ==
    [Principal : Principals,
     Rate_Pct : RatePcts,
     Tenor_Months : 0 .. (MaxHorizon + 1),
     Draw_Start_M : 0 .. MaxHorizon,
     Draw_End_M : 0 .. (MaxHorizon + 1),
     Grace_Principal_M : 0 .. MaxGrace,
     Amort_Type : AmortTypes]

---------------------------------------------------------------------------
(* create_loan_schedule                                                    *)

annuity_payment(principal_, rate_m, periods) ==
    IF periods <= 0 THEN principal_
    ELSE IF rate_m = Zero THEN RDiv(principal_, R(periods))
    ELSE RDiv(RMul(principal_, rate_m),
              RSub(R(1), RPow(RAdd(R(1), rate_m), -periods)))

principal == R(loan_params.Principal)

r_m == Norm(loan_params.Rate_Pct, 1200)

tenor == Max(loan_params.Tenor_Months, 0)

draw_start == Max(loan_params.Draw_Start_M, 1)

draw_end == Max(0, Min(loan_params.Draw_End_M, Min(tenor, horizon)))

grace_prin_m == Max(loan_params.Grace_Principal_M, 0)

amort_type == loan_params.Amort_Type

draw_months == IF draw_end >= draw_start THEN Max(0, draw_end - draw_start + 1) ELSE 0

\* Slip: the principal spread over the horizon instead of the draw window.
MonthlyDrawOverHorizon == IF draw_months > 0 THEN RDiv(principal, R(horizon)) ELSE Zero

monthly_draw == IF draw_months > 0 THEN RDiv(principal, R(draw_months)) ELSE Zero

\* Slip: the principal grace left out of the window start.
AmortStartIgnoresGrace == Min(draw_end + 1, tenor)

amort_start == Min(draw_end + grace_prin_m + 1, tenor)

amort_nper == Max(tenor - amort_start + 1, 0)

ZeroRow(m) ==
    [Month_Index |-> m, Opening_Balance |-> Zero, Drawdown |-> Zero,
     Interest_Accrued |-> Zero, Principal_Repayment |-> Zero,
     Closing_Balance |-> Zero]

\* Slip: the instalment drawn in every month, the draw window ignored.
DrawdownEveryMonth(m) == monthly_draw

Drawdown(m) ==
    IF draw_months > 0 /\ draw_start <= m /\ m <= draw_end THEN monthly_draw ELSE Zero

\* Slip: interest accrued on the balance after the month's draw.
InterestOnDrawnBalance(opening, m) ==
    IF 1 <= m /\ m <= tenor THEN RMul(RAdd(opening, Drawdown(m)), r_m) ELSE Zero

Interest(opening, m) ==
    IF 1 <= m /\ m <= tenor THEN RMul(opening, r_m) ELSE Zero

InAmortWindow(m) == amort_nper > 0 /\ amort_start <= m /\ m <= tenor

Plug(opening, draw) == RMax(Zero, RAdd(opening, draw))

\* Slip: the instalment spread over the whole tenor instead of the window.
StraightPrincipalOverTenor(pv) == IF amort_nper > 0 THEN RDiv(pv, R(tenor)) ELSE Zero

StraightPrincipal(pv) == IF amort_nper > 0 THEN RDiv(pv, R(amort_nper)) ELSE Zero

\* Slip: an unknown policy handled as a bullet instead of an annuity.
RepayUnknownAsBullet(m, opening, draw, interest, pmt, sp) ==
    IF ~InAmortWindow(m) THEN Zero
    ELSE IF amort_type = "annuity" THEN
        IF m = tenor THEN Plug(opening, draw) ELSE RMax(Zero, RSub(pmt, interest))
    ELSE IF amort_type = "straight" THEN
        IF m = tenor THEN Plug(opening, draw) ELSE sp
    ELSE
        IF m < tenor THEN Zero ELSE Plug(opening, draw)

Repay(m, opening, draw, interest, pmt, sp) ==
    IF ~InAmortWindow(m) THEN Zero
    ELSE IF amort_type = "annuity" THEN
        IF m = tenor THEN Plug(opening, draw) ELSE RMax(Zero, RSub(pmt, interest))
    ELSE IF amort_type = "straight" THEN
        IF m = tenor THEN Plug(opening, draw) ELSE sp
    ELSE IF amort_type = "bullet" THEN
        IF m < tenor THEN Zero ELSE Plug(opening, draw)
    ELSE
        IF m = tenor THEN Plug(opening, draw) ELSE RMax(Zero, RSub(pmt, interest))

\* Slip: the repayment left out of the roll-forward.
ClosingWithoutRepay(opening, draw, repay) == RAdd(opening, draw)

\* Slip: the repayment added to the balance instead of taken off it.
ClosingAddsRepay(opening, draw, repay) == RAdd(RAdd(opening, draw), repay)

Closing(opening, draw, repay) == RSub(RAdd(opening, draw), repay)

InitLoan ==
    /\ pc = "create_loan_schedule"
    /\ loan_params \in LoanRows
    /\ i = 0
    /\ df = [m \in 1 .. horizon |-> ZeroRow(m)]
    /\ annuity_pmt = None
    /\ straight_principal = None
    /\ pv_at_amort_start = None

IdleLoan ==
    /\ loan_params = [Principal |-> 0, Rate_Pct |-> 0, Tenor_Months |-> 0,
                      Draw_Start_M |-> 0, Draw_End_M |-> 0,
                      Grace_Principal_M |-> 0, Amort_Type |-> "annuity"]
    /\ i = 0
    /\ df = <<>>
    /\ annuity_pmt = None
    /\ straight_principal = None
    /\ pv_at_amort_start = None

\* One iteration of the month loop.
LoanStep ==
    /\ pc = "create_loan_schedule"
    /\ i < horizon
    /\ LET m == i + 1
           opening == IF i > 0 THEN df[i].Closing_Balance ELSE Zero
           draw == Drawdown(m)
           interest == Interest(opening, m)
           pv == IF InAmortWindow(m) /\ pv_at_amort_start = None
                 THEN opening ELSE pv_at_amort_start
           usesAnnuity == InAmortWindow(m) /\ amort_type \notin {"straight", "bullet"}
           usesStraight == InAmortWindow(m) /\ amort_type = "straight"
           pmt == IF usesAnnuity /\ annuity_pmt = None
                  THEN annuity_payment(pv, r_m, amort_nper) ELSE annuity_pmt
           sp == IF usesStraight /\ straight_principal = None
                 THEN StraightPrincipal(pv) ELSE straight_principal
           repay == Repay(m, opening, draw, interest, pmt, sp)
           closing == Closing(opening, draw, repay)
       IN  /\ pv_at_amort_start' = pv
           /\ annuity_pmt' = pmt
           /\ straight_principal' = sp
           /\ df' = [df EXCEPT ![m] =
                        [Month_Index |-> m, Opening_Balance |-> opening,
                         Drawdown |-> draw, Interest_Accrued |-> interest,
                         Principal_Repayment |-> repay,
                         Closing_Balance |-> closing]]
    /\ i' = i + 1
    /\ UNCHANGED <<pc, error, loan_params, m3Vars, wfVars, otherVars>>

LoanReturn ==
    /\ pc = "create_loan_schedule"
    /\ i = horizon
    /\ pc' = "returned"
    /\ UNCHANGED <<error, loanVars, m3Vars, wfVars, otherVars>>

---------------------------------------------------------------------------
(* create_loan_schedule on a row as passed in: _ival, _fval and the        *)
(* normalisation of Amort_Type.                                            *)
(*                                                                         *)
(* A cell is [t |-> kind, v |-> integer]: "int" (the number v), "floatstr" *)
(* (the string "2.5"), "text" (the string "abc"), "empty" (the string ""), *)
(* "none" (None), "missing" (the key is absent) and "nan" (float NaN).     *)

IntCell(n) == [t |-> "int", v |-> n]

Cell(kind) == [t |-> kind, v |-> 0]

\* int(v) and int(float(v)) both fail on these: the second failure happens
\* inside the except clause and leaves _ival.
IvalRaises(cell) == cell.t \in {"text", "nan"}

ival(cell, default) ==
    IF cell.t = "int" THEN cell.v
    ELSE IF cell.t = "floatstr" THEN 2
    ELSE default

fval(cell, default) == IF cell.t = "int" THEN cell.v ELSE default

\* An Amort_Type cell is [t |-> "str", s |-> the string], or "missing",
\* "none" (None) or "nan" with an unused s.
AmortCell(str_) == [t |-> "str", s |-> str_]

AmortCells ==
    {AmortCell(x) : x \in {"annuity", "straight", "bullet", "other",
                           " Annuity ", "BULLET", ""}}
    \cup {[t |-> k, s |-> ""] : k \in {"missing", "none", "nan"}}

\* str(v).strip().lower() on the strings of the model.
StripLower(str_) ==
    CASE str_ = " Annuity " -> "annuity"
      [] str_ = "BULLET" -> "bullet"
      [] OTHER -> str_

NormalisedAmortType(cell) ==
    CASE cell.t = "missing" -> "annuity"
      [] cell.t = "none" -> "none"
      [] cell.t = "nan" -> "nan"
      [] OTHER -> StripLower(cell.s)

MalformedKinds == {"text", "empty", "none", "missing", "nan"}

IntFields == {"Tenor_Months", "Draw_Start_M", "Draw_End_M", "Grace_Principal_M"}

FloatFields == {"Principal", "Rate_Pct"}

\* Well-formed rows, every cell a number.
BaseRawRows ==
    [Principal : {IntCell(12)},
     Rate_Pct : {IntCell(600)},
     Tenor_Months : {IntCell(2), IntCell(3)},
     Draw_Start_M : {IntCell(1)},
     Draw_End_M : {IntCell(1), IntCell(2)},
     Grace_Principal_M : {IntCell(0), IntCell(1)},
     Amort_Type : AmortCells]

\* A float NaN in Principal or Rate_Pct is left out: it raises nothing and
\* spreads NaN through the schedule, which exact arithmetic does not model.
BadCellsOf(f) ==
    IF f \in IntFields
    THEN {Cell(k) : k \in MalformedKinds \cup {"floatstr"}}
    ELSE {Cell(k) : k \in MalformedKinds \ {"nan"}}

\* The well-formed rows, and each of them with one numeric cell replaced.
RawRows ==
    BaseRawRows
    \cup UNION {{[b EXCEPT ![f] = c] : b \in BaseRawRows, c \in BadCellsOf(f)} :
                   f \in IntFields \cup FloatFields}

InitRaw ==
    /\ pc = "parse_loan_params"
    /\ raw_row \in RawRows
    /\ prev_df = None

\* The head of create_loan_schedule: horizon, the six coercions, Amort_Type
\* and the empty frame.  A ValueError of _ival leaves the function.
ParseLoanParams ==
    /\ pc = "parse_loan_params"
    /\ IF \E f \in IntFields : IvalRaises(raw_row[f])
       THEN /\ pc' = "raised"
            /\ error' = "ValueError"
            /\ UNCHANGED <<loan_params, df>>
       ELSE LET ds == ival(raw_row.Draw_Start_M, 1)
            IN  /\ pc' = "create_loan_schedule"
                /\ loan_params' =
                       [Principal |-> fval(raw_row.Principal, 0),
                        Rate_Pct |-> fval(raw_row.Rate_Pct, 0),
                        Tenor_Months |-> ival(raw_row.Tenor_Months, horizon),
                        Draw_Start_M |-> ds,
                        Draw_End_M |-> ival(raw_row.Draw_End_M, Max(ds, 1)),
                        Grace_Principal_M |-> ival(raw_row.Grace_Principal_M, 0),
                        Amort_Type |-> NormalisedAmortType(raw_row.Amort_Type)]
                /\ df' = [m \in 1 .. horizon |-> ZeroRow(m)]
                /\ UNCHANGED error
    /\ i' = 0
    /\ annuity_pmt' = None
    /\ straight_principal' = None
    /\ pv_at_amort_start' = None
    /\ UNCHANGED <<tieVars, valVars, jrVars, rawVars, m3Vars, wfVars, costVars, engVars>>

KnownPolicies == {"annuity", "straight", "bullet"}

\* The caller calls again with the same row, its Amort_Type set to annuity.
CallAgainAsAnnuity ==
    /\ pc = "returned"
    /\ raw_row # None
    /\ prev_df = None
    /\ \/ raw_row.Amort_Type.t # "str"
       \/ NormalisedAmortType(raw_row.Amort_Type) \notin KnownPolicies
    /\ prev_df' = df
    /\ raw_row' = [raw_row EXCEPT !.Amort_Type = AmortCell("annuity")]
    /\ pc' = "parse_loan_params"
    /\ UNCHANGED <<tieVars, valVars, jrVars, error, loanVars, m3Vars, wfVars, costVars, engVars>>

---------------------------------------------------------------------------
(* run_m3: the revolver schedule that covers CAPEX minus approximate CFO.  *)

MaxMonths == 3

\* APR cells of a Finance_Stack: 0 (unusable), 1.2 and 1.5 (decimal
\* notation), 600 (percent notation).
AprValues == {R(0), <<6, 5>>, <<3, 2>>, R(600)}

CapexValues == {0, 5}

CfoApproxValues == {-3, 0, 8}

months == 1 .. MaxMonths

\* A Finance_Stack is absent or empty (None), or has a revolver row whose
\* rate columns hold the cells `rates` in column order, or has the
\* Parameter/Value shape with a Revolver_APR value.
FinStacks ==
    {None}
    \cup {[shape |-> "row", rates |-> <<>>]}
    \cup {[shape |-> "row", rates |-> <<a>>] : a \in AprValues}
    \cup {[shape |-> "row", rates |-> <<a, b>>] : a \in AprValues, b \in AprValues}
    \cup {[shape |-> "parameter", value |-> a] : a \in AprValues}

FallbackRate == <<1, 100>>

RECURSIVE RateFromCells(_)
RateFromCells(cells) ==
    IF cells = <<>> THEN FallbackRate
    ELSE LET val == Head(cells)
         IN  IF RLt(Zero, val) /\ RLt(val, <<3, 2>>) THEN RDiv(val, R(12))
             ELSE IF RLt(<<3, 2>>, val) THEN RDiv(RDiv(val, R(100)), R(12))
             ELSE RateFromCells(Tail(cells))

get_monthly_rate_from_finance_stack(fs) ==
    IF fs = None THEN FallbackRate
    ELSE IF fs.shape = "row" THEN RateFromCells(fs.rates)
    ELSE IF RLt(<<3, 2>>, fs.value) THEN RDiv(RDiv(fs.value, R(100)), R(12))
    ELSE IF RLt(Zero, fs.value) THEN RDiv(fs.value, R(12))
    ELSE FallbackRate

monthly_rate == get_monthly_rate_from_finance_stack(fin_stack)

RevolverDraw(need) == RMax(Zero, need)

\* Slip: the whole surplus repaid, whatever is outstanding.
RevolverRepaySurplus(open, need) ==
    IF RLt(need, Zero) THEN RNeg(need) ELSE Zero

RevolverRepay(open, need) ==
    IF RLt(need, Zero) THEN RMin(open, RNeg(need)) ELSE Zero

RevolverClose(open, draw, repay) == RSub(RAdd(open, draw), repay)

InitM3 ==
    /\ pc = "run_m3"
    /\ fin_stack \in FinStacks
    /\ balance_open = Zero
    /\ records = <<>>

IdleM3 ==
    /\ fin_stack = None
    /\ balance_open = Zero
    /\ records = <<>>

\* One iteration of the loop over the calendar months.
RevolverStep ==
    /\ pc = "run_m3"
    /\ Len(records) < MaxMonths
    /\ \E capex \in CapexValues, cfo_approx \in CfoApproxValues :
        LET m == Len(records) + 1
            interest == RMul(balance_open, monthly_rate)
            need == RAdd(RSub(R(capex), R(cfo_approx)), interest)
            draw == RevolverDraw(need)
            repay == RevolverRepay(balance_open, need)
            balance_close == RevolverClose(balance_open, draw, repay)
        IN  /\ records' = Append(records,
                   [Month_Index |-> m,
                    Revolver_Open_Balance_NAD_000 |-> balance_open,
                    Revolver_Draw_NAD_000 |-> draw,
                    Revolver_Repayment_NAD_000 |-> repay,
                    Revolver_Close_Balance_NAD_000 |-> balance_close,
                    Revolver_Interest_Expense_NAD_000 |-> interest])
            /\ balance_open' = balance_close
    /\ UNCHANGED <<pc, error, fin_stack, loanVars, wfVars, otherVars>>

RevolverReturn ==
    /\ pc = "run_m3"
    /\ Len(records) = MaxMonths
    /\ pc' = "returned"
    /\ UNCHANGED <<error, loanVars, m3Vars, wfVars, otherVars>>

---------------------------------------------------------------------------
(* run_m7_5b: the junior cash-waterfall allocator.  Amounts are thousands  *)
(* of NAD; the inputs below are whole numbers, on which the source's float *)
(* sums, differences, min and max are exact.                               *)

MaxPeriods == 2

MaxRows == 2

JUNIOR_FLOW_IN_TYPES == {"Equity_In", "Note_Draw"}

JUNIOR_FLOW_OUT_TYPES ==
    {"Pref_Dividend", "RevShare_Out", "Buyout_At_Refi", "Buyout", "Dividend_Paid"}

JUNIOR_FLOW_NONCASH_LIAB_UP == {"PIK_Accrual"}

JUNIOR_FLOW_CONVERSION == {"Note_Convert"}

SENIOR_INT_PAID_CANDS ==
    <<"Interest_Paid_NAD_000", "Cash_Interest_Paid_NAD_000", "Interest_Paid">>

SENIOR_PRI_PAID_CANDS ==
    <<"Principal_Paid_NAD_000", "Principal_Repayment_NAD_000", "Principal_Paid">>

TAX_PAID_CANDS == <<"Tax_Paid_NAD_000", "Tax_Payable_NAD_000", "Tax_Paid">>

NoColumn == ""

wf_months == 1 .. MaxPeriods

\* Rows a junior flow log may hold: a flow type with an amount.  A
\* scheduled distribution may carry a negative amount (a reversal).
FlowKinds ==
    {<<"Equity_In", 50>>, <<"Pref_Dividend", 50>>, <<"Pref_Dividend", -5>>,
     <<"PIK_Accrual", 5>>, <<"Note_Convert", 20>>, <<"Mgmt_Fee", 7>>}

LogRows ==
    {[Month_Index |-> m, Flow_Type |-> k[1], Amount_NAD_000 |-> k[2]] :
        m \in wf_months, k \in FlowKinds}

TypeRank(t) ==
    CASE t = "Equity_In" -> 1 [] t = "Pref_Dividend" -> 2 [] t = "PIK_Accrual" -> 3
      [] t = "Note_Convert" -> 4 [] OTHER -> 5

RowRank(r) == (r.Month_Index * 10 + TypeRank(r.Flow_Type)) * 1000 + r.Amount_NAD_000

\* The log file is never empty (_read_parquet fails on an empty frame).
\* Every use of the log is a sum per month and bucket, so one order of the
\* rows stands for all of them.
JuniorLogs ==
    {l \in UNION {[1 .. n -> LogRows] : n \in 1 .. MaxRows} :
        \A j \in 1 .. (Len(l) - 1) : RowRank(l[j]) <= RowRank(l[j + 1])}

Selections ==
    {[Instrument |-> "Preferred Equity", Ticket_USD |-> 2000],
     [Instrument |-> "Convertible Note", Ticket_USD |-> 0]}

M3WithPaidColumns ==
    [columns |-> {"Month_Index", "Interest_Paid_NAD_000", "Principal_Paid_NAD_000"}]

\* The columns of the schedule run_m3 writes.
M3AsEmitted ==
    [columns |-> {"Month_Index", "Revolver_Open_Balance_NAD_000",
                  "Revolver_Draw_NAD_000", "Revolver_Repayment_NAD_000",
                  "Revolver_Close_Balance_NAD_000",
                  "Revolver_Interest_Expense_NAD_000"}]

\* A schedule with one of the two paid columns only.
M3InterestOnly == [columns |-> {"Month_Index", "Interest_Paid_NAD_000"}]

M4WithTaxPaid == [columns |-> {"Month_Index", "Tax_Paid_NAD_000"}]

M4WithoutTaxPaid == [columns |-> {"Month_Index", "Tax_Expense_NAD_000"}]

\* The optional upstream artifacts, as <<M3 schedule, M4 schedule>>.
Upstreams ==
    {<<None, None>>,
     <<M3WithPaidColumns, M4WithTaxPaid>>,
     <<M3AsEmitted, M4WithTaxPaid>>,
     <<M3WithPaidColumns, M4WithoutTaxPaid>>,
     <<M3InterestOnly, None>>}

FxPaths == {[m \in wf_months |-> 20]}

\* What the upstream tables hold for one period: CFO (M5), interest and
\* principal paid (M3), tax paid (M4), and the balances M6 builds its
\* balance sheet from.
PeriodInputs ==
    {[CFO |-> 100, Interest_Paid |-> 20, Principal_Paid |-> 40, Tax_Paid |-> 10,
      NWC_Asset |-> 300, NWC_Liability |-> 50, Debt_Outstanding |-> 200,
      Tax_Payable |-> 10, Equity_Share_Capital |-> 0, Equity_Retained_Earnings |-> 70],
     [CFO |-> 100, Interest_Paid |-> 0, Principal_Paid |-> 0, Tax_Paid |-> 0,
      NWC_Asset |-> 0, NWC_Liability |-> 0, Debt_Outstanding |-> 0,
      Tax_Payable |-> 0, Equity_Share_Capital |-> 0, Equity_Retained_Earnings |-> 0],
     [CFO |-> -20, Interest_Paid |-> 20, Principal_Paid |-> 40, Tax_Paid |-> 10,
      NWC_Asset |-> 400, NWC_Liability |-> 60, Debt_Outstanding |-> 40,
      Tax_Payable |-> 0, Equity_Share_Capital |-> 0, Equity_Retained_Earnings |-> -50]}

\* compute_balance_sheet (M6): cash is the balancing item.
compute_balance_sheet(p) ==
    LET equity_total == p.Equity_Share_Capital + p.Equity_Retained_Earnings
        liab_total == p.Debt_Outstanding + p.Tax_Payable + p.NWC_Liability
        liab_eq_total == liab_total + equity_total
        cash_balancing == liab_eq_total - p.NWC_Asset
        assets_total == cash_balancing + p.NWC_Asset
    IN  [Cash_and_Cash_Equivalents_NAD_000 |-> cash_balancing,
         Assets_Total_NAD_000 |-> assets_total,
         Liabilities_And_Equity_Total_NAD_000 |-> liab_eq_total]

\* compute_balance_sheet: the identity check that ends it with an
\* AssertionError, diff > 1e-6.
IdentityCheckFails(m6) ==
    Abs(m6.Assets_Total_NAD_000 - m6.Liabilities_And_Equity_Total_NAD_000) * 1000000 > 1

first_present(columns, cands) ==
    IF \E k \in 1 .. Len(cands) : cands[k] \in columns
    THEN cands[CHOOSE k \in 1 .. Len(cands) :
                 /\ cands[k] \in columns
                 /\ \A j \in 1 .. (k - 1) : cands[j] \notin columns]
    ELSE NoColumn

classify(instr) ==
    IF instr \in {"Convertible Note"} THEN "debt_like"
    ELSE IF instr \in {"SAFE", "Preferred Equity", "RevShareOnly"} THEN "equity_like"
    ELSE "debt_like"

classification == classify(sel.Instrument)

ticket_usd == IF sel.Ticket_USD = 0 THEN 500000 ELSE sel.Ticket_USD

RECURSIVE SumAmounts(_, _, _)
\* Sum of Amount_NAD_000 over the rows of `frame` of month m and a type in `types`.
SumAmounts(frame, types, m) ==
    IF frame = <<>> THEN 0
    ELSE (IF Head(frame).Month_Index = m /\ Head(frame).Flow_Type \in types
          THEN Head(frame).Amount_NAD_000 ELSE 0)
         + SumAmounts(Tail(frame), types, m)

InflowMonths(frame) ==
    {frame[k].Month_Index : k \in {j \in 1 .. Len(frame) :
                                      frame[j].Flow_Type \in JUNIOR_FLOW_IN_TYPES}}

SetMin(S) == CHOOSE x \in S : \A y \in S : x <= y

start_m == SetMin(wf_months)

inj_month(frame) ==
    IF InflowMonths(frame) = {} THEN start_m ELSE SetMin(InflowMonths(frame))

inj_nad_000 == (ticket_usd * df_fx[inj_month(junior_log)]) \div 1000

\* Slip: the subtraction left unclamped.
AvailableUnclamped(cfo, senior_service, tax_paid) == cfo - senior_service - tax_paid

\* Slip: tax paid left out of the subordination.
AvailableIgnoresTax(cfo, senior_service, tax_paid) == Max(0, cfo - senior_service)

Available(cfo, senior_service, tax_paid) == Max(0, cfo - senior_service - tax_paid)

ActualOut(sched_out, available) == Min(sched_out, available)

\* Slip: the part of a distribution that is not paid is dropped.
UnpaidWrittenOff(sched_out, actual_out) == 0

Unpaid(sched_out, actual_out) == sched_out - actual_out

\* Slip: the scheduled outflow taken off instead of the amount paid.
CffSignSlip(jun_in, actual_out) == jun_in + actual_out

Cff(jun_in, actual_out) == jun_in - actual_out

CashRebuilt(cash_base, cum_cff) == cash_base + cum_cff

AssetsTotal(m6_assets_total, cash_base, cash_rebuilt) ==
    (m6_assets_total - cash_base) + cash_rebuilt

\* Slip: the baseline total kept, the junior layer left out of it.
LeTotalBaseline(assets_total, m6_le_total) == m6_le_total

\* le_total = assets_total.copy()
LeTotal(assets_total, m6_le_total) == assets_total

\* Slip: the payable of the period reported instead of the running sum.
PayableNotCumulated(prev, unpaid) == unpaid

PayableEop(prev, unpaid) == prev + unpaid

\* Slip: a declared distribution that leaves equity where it was.
EquityDeltaIgnoresDeclared(jun_in, sched_out) == jun_in

\* Distributions are recognised in equity when declared.
EquityDelta(jun_in, sched_out) == jun_in - sched_out

\* Slip: a conversion that leaves the liability where it was.
JuniorLiabEopKeepsConverted(cls, prev, draws, pik, conv) ==
    IF cls = "equity_like" THEN 0 ELSE prev + draws + pik

\* The junior liability at the end of a period: none for an equity-like
\* instrument, the roll-forward of draws + PIK - conversion otherwise.
JuniorLiabEop(cls, prev, draws, pik, conv) ==
    IF cls = "equity_like" THEN 0 ELSE prev + draws + pik - conv

\* Slip: the equity leg of a conversion left out.
JuniorEquityEopNoConversionLeg(cls, prev, equity_delta, conv) == prev + equity_delta

\* The junior equity at the end of a period: the running sum of the equity
\* movements, to which a debt-like instrument adds its conversions.
JuniorEquityEop(cls, prev, equity_delta, conv) ==
    IF cls = "equity_like" THEN prev + equity_delta ELSE prev + equity_delta + conv

SeniorService(p) ==
    IF df_m3 = None THEN 0
    ELSE IF /\ first_present(df_m3.columns, SENIOR_INT_PAID_CANDS) # NoColumn
            /\ first_present(df_m3.columns, SENIOR_PRI_PAID_CANDS) # NoColumn
         THEN p.Interest_Paid + p.Principal_Paid
         ELSE 0

TaxPaid(p) ==
    IF df_m4 = None THEN 0
    ELSE IF first_present(df_m4.columns, TAX_PAID_CANDS) # NoColumn
         THEN p.Tax_Paid ELSE 0

InitWaterfall ==
    /\ pc = "run_m7_5b"
    /\ sel \in Selections
    /\ junior_log \in JuniorLogs
    /\ df_j = junior_log
    /\ \E u \in Upstreams : df_m3 = u[1] /\ df_m4 = u[2]
    /\ df_fx \in FxPaths
    /\ alloc = <<>>
    /\ warnings = <<>>

IdleWaterfall ==
    /\ sel = [Instrument |-> "", Ticket_USD |-> 0]
    /\ junior_log = <<>>
    /\ df_j = <<>>
    /\ df_m3 = None
    /\ df_m4 = None
    /\ df_fx = <<>>
    /\ alloc = <<>>
    /\ warnings = <<>>

\* The opening inflow: synthesized from the ticket when the log has no
\* capital-in row in the injection month.
EnsureOpeningInflow ==
    /\ pc = "run_m7_5b"
    /\ pc' = "resolve_subordination"
    /\ LET im == inj_month(junior_log)
           missing == \A k \in 1 .. Len(junior_log) :
                         ~(/\ junior_log[k].Month_Index = im
                           /\ junior_log[k].Flow_Type \in JUNIOR_FLOW_IN_TYPES)
       IN  /\ df_j' = IF missing
                       THEN Append(junior_log,
                              [Month_Index |-> im,
                               Flow_Type |-> IF classification = "equity_like"
                                             THEN "Equity_In" ELSE "Note_Draw",
                               Amount_NAD_000 |-> inj_nad_000])
                       ELSE junior_log
           /\ warnings' = IF missing
                           THEN Append(warnings, "No explicit opening inflow found")
                           ELSE warnings
    /\ UNCHANGED <<error, sel, junior_log, df_m3, df_m4, df_fx, alloc,
                 loanVars, m3Vars, otherVars>>

\* Slip: the fallback to zero made without a warning.
SeniorNotesSilent == <<>>

\* What is logged at warning level while the senior service is resolved.
SeniorNotes ==
    IF df_m3 = None
    THEN <<"M3 revolver schedule not found; subordination uses CFO only.">>
    ELSE IF /\ first_present(df_m3.columns, SENIOR_INT_PAID_CANDS) # NoColumn
            /\ first_present(df_m3.columns, SENIOR_PRI_PAID_CANDS) # NoColumn
         THEN <<>>
         ELSE <<"Senior service columns not found in M3; assuming zero.">>

\* What is logged at warning level while the tax paid is resolved.
TaxNotes ==
    IF df_m4 = None
    THEN <<"M4 tax schedule not found; subordination uses no tax paid.">>
    ELSE IF first_present(df_m4.columns, TAX_PAID_CANDS) # NoColumn
         THEN <<>>
         ELSE <<"Tax paid column not found in M4; assuming zero.">>

\* The senior-service and tax-paid series are resolved, best effort.
ResolveSubordination ==
    /\ pc = "resolve_subordination"
    /\ pc' = "allocate"
    /\ warnings' = warnings \o SeniorNotes \o TaxNotes
    /\ UNCHANGED <<error, sel, junior_log, df_j, df_m3, df_m4, df_fx, alloc,
                 loanVars, m3Vars, otherVars>>

\* Period t of the vectorised allocation and of the balance roll-forward.
AllocatePeriod ==
    /\ pc = "allocate"
    /\ Len(alloc) < MaxPeriods
    /\ \E p \in {q \in PeriodInputs : ~IdentityCheckFails(compute_balance_sheet(q))} :
        LET t == Len(alloc) + 1
            prev == IF t = 1
                    THEN [payable_eop |-> 0, junior_liab_eop |-> 0,
                          junior_equity_eop |-> 0, cash_delta |-> 0]
                    ELSE alloc[t - 1]
            jun_in == SumAmounts(df_j, JUNIOR_FLOW_IN_TYPES, t)
            sched_out == SumAmounts(df_j, JUNIOR_FLOW_OUT_TYPES, t)
            pik == SumAmounts(df_j, JUNIOR_FLOW_NONCASH_LIAB_UP, t)
            conv == SumAmounts(df_j, JUNIOR_FLOW_CONVERSION, t)
            senior_service == SeniorService(p)
            tax_paid == TaxPaid(p)
            available == Available(p.CFO, senior_service, tax_paid)
            actual_out == ActualOut(sched_out, available)
            unpaid == Unpaid(sched_out, actual_out)
            cff_nad == Cff(jun_in, actual_out)
            equity_delta == EquityDelta(jun_in, sched_out)
            m6 == compute_balance_sheet(p)
            cash_base == m6.Cash_and_Cash_Equivalents_NAD_000
            cash_rebuilt == CashRebuilt(cash_base, prev.cash_delta + cff_nad)
            assets_total == AssetsTotal(m6.Assets_Total_NAD_000, cash_base, cash_rebuilt)
        IN  alloc' = Append(alloc,
               [Month_Index |-> t,
                CFO_NAD_000 |-> p.CFO,
                m3_interest |-> p.Interest_Paid,
                m3_principal |-> p.Principal_Paid,
                senior_service |-> senior_service,
                tax_paid |-> tax_paid,
                available |-> available,
                JUN_IN_NAD_000 |-> jun_in,
                JUN_OUT_SCHED_NAD_000 |-> sched_out,
                JUN_PIK_NAD_000 |-> pik,
                JUN_CONVERT_NAD_000 |-> conv,
                actual_out |-> actual_out,
                unpaid |-> unpaid,
                CFF_NAD_000 |-> cff_nad,
                cash_delta |-> prev.cash_delta + cff_nad,
                payable_eop |-> PayableEop(prev.payable_eop, unpaid),
                junior_liab_eop |->
                    JuniorLiabEop(classification, prev.junior_liab_eop, jun_in, pik, conv),
                junior_equity_eop |->
                    JuniorEquityEop(classification, prev.junior_equity_eop,
                                    equity_delta, conv),
                m6 |-> m6,
                Cash_And_Equivalents_NAD_000 |-> cash_rebuilt,
                Assets_Total_NAD_000 |-> assets_total,
                Liabilities_And_Equity_Total_NAD_000 |->
                    LeTotal(assets_total, m6.Liabilities_And_Equity_Total_NAD_000)])
    /\ UNCHANGED <<pc, error, sel, junior_log, df_j, df_m3, df_m4, df_fx, warnings,
                 loanVars, m3Vars, otherVars>>

EmitStatements ==
    /\ pc = "allocate"
    /\ Len(alloc) = MaxPeriods
    /\ pc' = "returned"
    /\ UNCHANGED <<error, wfVars, loanVars, m3Vars, otherVars>>

---------------------------------------------------------------------------
(* Specifications.                                                         *)

---------------------------------------------------------------------------
(* _create_revolver_schedule: the revolver cost placeholder.               *)

calendar_df == [k \in 1 .. horizon |-> k]

RevolverPrincipals == {-12, 0, 2000}

RevolverRatePcts == {0, 12}

RevolverRows ==
    [Line_ID : {10},
     Principal : RevolverPrincipals,
     Rate_Pct : RevolverRatePcts,
     Tenor_Months : 0 .. (MaxHorizon + 1),
     Draw_Start_M : 0 .. (MaxHorizon + 1)]

\* Slip: interest on the whole facility instead of half of it.
RevolverCostFullyDrawn(principal_, rate_m) == RMul(principal_, rate_m)

RevolverCost(principal_, rate_m) == RMul(<<1, 2>>, RMul(principal_, rate_m))

create_revolver_schedule(row_, calendar) ==
    LET principal_ == R(row_.Principal)
        rate_m == Norm(row_.Rate_Pct, 1200)
        tenor_ == row_.Tenor_Months
        draw_start_ == row_.Draw_Start_M
    IN  [k \in 1 .. Len(calendar) |->
            [Month_Index |-> calendar[k],
             Line_ID |-> row_.Line_ID,
             Opening_Balance |-> Zero,
             Drawdown |-> Zero,
             Repayment |-> Zero,
             Interest_Accrued |->
                 IF calendar[k] >= draw_start_ /\ calendar[k] <= tenor_
                 THEN RevolverCost(principal_, rate_m) ELSE Zero,
             Closing_Balance |-> Zero]]

InitCost ==
    /\ pc = "_create_revolver_schedule"
    /\ row \in RevolverRows
    /\ revolver_df = None

CreateRevolverSchedule ==
    /\ pc = "_create_revolver_schedule"
    /\ revolver_df' = create_revolver_schedule(row, calendar_df)
    /\ pc' = "returned"
    /\ UNCHANGED <<tieVars, valVars, jrVars, error, row, loanVars, m3Vars, wfVars, rawVars, engVars>>

---------------------------------------------------------------------------
(* create_financing_schedules: the active case's instruments.              *)

MaxStackRows == 2

CaseNames == {"CaseX", "CaseY"}

\* Catalog rows without their Line_ID.  The instrument terms are those of
\* one facility: the selection and the routing by kind are what varies.
StackRowValues ==
    [Case_Name : CaseNames,
     Active : {0, 1},
     Revolving : {0, 1},
     Is_Insurance : {0, 1},
     Principal : {2000},
     Rate_Pct : {12},
     Tenor_Months : {3},
     Draw_Start_M : {2}]

WithLineId(v, k) ==
    [Case_Name |-> v.Case_Name, Line_ID |-> k, Active |-> v.Active,
     Revolving |-> v.Revolving, Is_Insurance |-> v.Is_Insurance,
     Principal |-> v.Principal, Rate_Pct |-> v.Rate_Pct,
     Tenor_Months |-> v.Tenor_Months, Draw_Start_M |-> v.Draw_Start_M]

FinanceStacks ==
    UNION {{[k \in 1 .. n |-> WithLineId(f[k], k)] : f \in [1 .. n -> StackRowValues]} :
              n \in 0 .. MaxStackRows}

CaseSelectors ==
    {<<>>,
     <<[Key |-> "Currency", Value |-> "NAD"]>>,
     <<[Key |-> "PFinance_Case", Value |-> "CaseX"]>>,
     <<[Key |-> "Currency", Value |-> "NAD"],
       [Key |-> "PFinance_Case", Value |-> "CaseY"]>>,
     <<[Key |-> "PFinance_Case", Value |-> "CaseY"],
       [Key |-> "PFinance_Case", Value |-> "CaseX"]>>}

IsCaseRow(kv) == kv.Key = "PFinance_Case"

\* The Value cells of the selector rows whose Key is PFinance_Case.
CaseValues(selector) == SelectSeq(selector, IsCaseRow)

\* Slip: the missing key not detected.
CaseKeyNeverMissing(selector) == FALSE

CaseKeyMissing(selector) == CaseValues(selector) = <<>>

active_case(selector) ==
    IF CaseValues(selector) = <<>> THEN "" ELSE CaseValues(selector)[1].Value

\* Slip: the Active flag left out of the filter.
FilterIgnoresActive(stack, case) ==
    LET keep(r) == r.Case_Name = case
    IN  SelectSeq(stack, keep)

FilterActiveCase(stack, case) ==
    LET keep(r) == r.Case_Name = case /\ r.Active = 1
    IN  SelectSeq(stack, keep)

create_insurance_schedule(row_, calendar) ==
    [k \in 1 .. Len(calendar) |->
        [Month_Index |-> k,
         Line_ID |-> row_.Line_ID,
         Premium_Cash_Outflow |-> Zero,
         Expense_Recognized |-> Zero,
         Prepaid_BOP |-> Zero,
         Prepaid_EOP |-> Zero]]

RECURSIVE Concat(_)
\* pd.concat(frames, ignore_index=True): the frames' rows one after another.
Concat(frames) ==
    IF frames = <<>> THEN <<>> ELSE Head(frames) \o Concat(Tail(frames))

IndexOf(rows_) ==
    [k \in 1 .. Len(rows_) |->
        [Case_Name |-> rows_[k].Case_Name, Line_ID |-> rows_[k].Line_ID,
         Revolving |-> rows_[k].Revolving, Is_Insurance |-> rows_[k].Is_Insurance]]

InitEng ==
    /\ pc = "create_financing_schedules"
    /\ finance_stack_df \in FinanceStacks
    /\ pfinance_case_selector_df \in CaseSelectors
    /\ rows = <<>>
    /\ r_pos = 0
    /\ revolver_schedules = <<>>
    /\ insurance_schedules = <<>>
    /\ outputs = <<>>

\* Case selection and the filter of the catalog; KeyError when the selector
\* has no PFinance_Case row.
SelectCase ==
    /\ pc = "create_financing_schedules"
    /\ IF CaseKeyMissing(pfinance_case_selector_df)
       THEN /\ pc' = "raised"
            /\ error' = "KeyError"
            /\ UNCHANGED rows
       ELSE /\ pc' = "process_rows"
            /\ rows' = FilterActiveCase(finance_stack_df,
                                        active_case(pfinance_case_selector_df))
            /\ UNCHANGED error
    /\ r_pos' = 0
    /\ revolver_schedules' = <<>>
    /\ insurance_schedules' = <<>>
    /\ UNCHANGED <<tieVars, valVars, jrVars, finance_stack_df, pfinance_case_selector_df, outputs,
                   loanVars, m3Vars, wfVars, rawVars, costVars>>

\* One iteration of the loop over the filtered rows.  The schedule of a
\* standard loan is computed and dropped.
ProcessRow ==
    /\ pc = "process_rows"
    /\ r_pos < Len(rows)
    /\ LET r == rows[r_pos + 1]
       IN  IF r.Is_Insurance = 1
           THEN /\ insurance_schedules' =
                       Append(insurance_schedules,
                              create_insurance_schedule(r, calendar_df))
                /\ UNCHANGED revolver_schedules
           ELSE IF r.Revolving = 1
           THEN /\ revolver_schedules' =
                       Append(revolver_schedules,
                              create_revolver_schedule(r, calendar_df))
                /\ UNCHANGED insurance_schedules
           ELSE UNCHANGED <<revolver_schedules, insurance_schedules>>
    /\ r_pos' = r_pos + 1
    /\ UNCHANGED <<tieVars, valVars, jrVars, pc, error, finance_stack_df, pfinance_case_selector_df, rows,
                   outputs, loanVars, m3Vars, wfVars, rawVars, costVars>>

ReturnSchedules ==
    /\ pc = "process_rows"
    /\ r_pos = Len(rows)
    /\ outputs' = Append(outputs,
                         [revolver |-> Concat(revolver_schedules),
                          insurance |-> Concat(insurance_schedules),
                          index |-> IndexOf(rows)])
    /\ pc' = "returned"
    /\ UNCHANGED <<tieVars, valVars, jrVars, error, finance_stack_df, pfinance_case_selector_df, rows, r_pos,
                   revolver_schedules, insurance_schedules,
                   loanVars, m3Vars, wfVars, rawVars, costVars>>

\* The caller calls again with the same two tables.
CallAgain ==
    /\ pc = "returned"
    /\ Len(outputs) = 1
    /\ pc' = "create_financing_schedules"
    /\ UNCHANGED <<tieVars, valVars, jrVars, error, engVars, loanVars, m3Vars, wfVars, rawVars, costVars>>

---------------------------------------------------------------------------
(* The balance-sheet tie checks: of the statement rebuild (run_m7_5b,      *)
(* m7_5b_rebuild), of the verifier (run_m8A) and of the junior rebuild     *)
(* (askedfiles0908), each on the two totals of the balance sheet it holds. *)

MaxTiePeriods == 2

\* PolicyConfig.tie_tol; the rebuild's check carries the same literal.
tie_tol == <<1, 1000000>>

\* The literal of the verifier's check.
VerifierTol == R(1)

AssetsTotals == {R(100)}

\* Assets_Total minus Liabilities_And_Equity_Total of one period.
TieGaps == {Zero, <<1, 2000000>>, <<1, 2>>, R(1), R(2), <<-1, 2>>, R(-2)}

BsRow(assets, gap) ==
    [Assets_Total_NAD_000 |-> assets,
     Liabilities_And_Equity_Total_NAD_000 |-> RSub(assets, gap)]

BalanceSheets ==
    UNION {[1..n -> {BsRow(a, g) : a \in AssetsTotals, g \in TieGaps}] :
           n \in 1..MaxTiePeriods}

RAbs(x) == <<Abs(x[1]), x[2]>>

\* (bs[assets] - bs[le]).abs().max()
max_abs_diff(sheet) ==
    LET diffs == {RAbs(RSub(sheet[k].Assets_Total_NAD_000,
                            sheet[k].Liabilities_And_Equity_Total_NAD_000)) :
                  k \in DOMAIN sheet}
    IN CHOOSE d \in diffs : \A e \in diffs : RLe(e, d)

InitTie ==
    /\ pc = "tie_check"
    /\ bs \in BalanceSheets
    /\ strict \in BOOLEAN
    /\ dbg = None
    /\ cf = <<>>

\* run_m7_5b, step 4a: fails only under strict, otherwise notes a warning
\* and goes on.
RebuildTieCheck ==
    /\ pc = "tie_check"
    /\ LET diff_nad == max_abs_diff(bs)
       IN IF RLt(tie_tol, diff_nad) /\ strict
          THEN /\ pc' = "raised"
               /\ error' = "RuntimeError"
               /\ UNCHANGED dbg
          ELSE /\ dbg' = [module |-> "m7_5b_rebuild",
                          notes |-> IF RLt(tie_tol, diff_nad)
                                    THEN <<"[WARN] Balance Sheet (from M6) does not balance (NAD)">>
                                    ELSE <<>>,
                          bs_balances_nad |-> RLe(diff_nad, tie_tol)]
               /\ pc' = "tie_checked"
               /\ UNCHANGED error
    /\ UNCHANGED <<bs, strict, cf, loanVars, m3Vars, wfVars, rawVars, costVars,
                   engVars, valVars, jrVars>>

\* run_m8A: _fail raises whatever the strict flag says.
VerifierTieCheck ==
    /\ pc = "tie_check"
    /\ IF RLe(max_abs_diff(bs), VerifierTol)
       THEN /\ dbg' = [module |-> "m8A_verifier",
                       notes |-> <<"[OK] BS totals tie">>,
                       bs_balances_nad |-> TRUE]
            /\ pc' = "tie_checked"
            /\ UNCHANGED error
       ELSE /\ pc' = "raised"
            /\ error' = "RuntimeError"
            /\ UNCHANGED dbg
    /\ UNCHANGED <<bs, strict, cf, loanVars, m3Vars, wfVars, rawVars, costVars,
                   engVars, valVars, jrVars>>

\* The junior rebuild: raises above policy.tie_tol.
JuniorRebuildTieCheck ==
    /\ pc = "tie_check"
    /\ IF RLt(tie_tol, max_abs_diff(bs))
       THEN /\ pc' = "raised"
            /\ error' = "AssertionError"
            /\ UNCHANGED dbg
       ELSE /\ dbg' = [module |-> "junior_rebuild",
                       notes |-> <<>>,
                       bs_balances_nad |-> TRUE]
            /\ pc' = "tie_checked"
            /\ UNCHANGED error
    /\ UNCHANGED <<bs, strict, cf, loanVars, m3Vars, wfVars, rawVars, costVars,
                   engVars, valVars, jrVars>>

---------------------------------------------------------------------------
(* The M3 rollforward validators, tools/ci_m3_check.py (main) and          *)
(* tools/py/validate_m3_outputs.py (validate), on the artifacts of an      *)
(* output directory.  A frame is a sequence of rows; a row maps the        *)
(* frame's column names to cells.                                          *)

MaxSchedRows == 2

\* The literal of both rollforward checks.
IdentityTol == <<1, 1000000>>

\* The column names run_m3 writes.
RunM3Layout ==
    [open |-> "Revolver_Open_Balance_NAD_000",
     draw |-> "Revolver_Draw_NAD_000",
     repay |-> "Revolver_Repayment_NAD_000",
     close |-> "Revolver_Close_Balance_NAD_000",
     int |-> "Revolver_Interest_Expense_NAD_000"]

\* The first alias of each role of ci_m3_check.
CiLayout ==
    [open |-> "Opening_Balance_NAD_000",
     draw |-> "New_Borrowing_NAD_000",
     repay |-> "Principal_Repayment_NAD_000",
     close |-> "Closing_Balance_NAD_000",
     int |-> "Interest_Expense_NAD_000"]

\* The columns validate requires of m3_financing_schedule.parquet.
ScheduleLayout ==
    [open |-> "Debt_Begin_NAD_000",
     draw |-> "New_Borrowing_NAD_000",
     repay |-> "Principal_Repayment_NAD_000",
     close |-> "Debt_End_NAD_000",
     int |-> "Interest_NAD_000",
     eq |-> "Equity_Infusion_NAD_000"]

Layouts == {RunM3Layout, CiLayout, ScheduleLayout}

OpenValues == {R(10)}

DrawValues == {Zero, R(5)}

RepayValues == {Zero, R(5)}

\* Closing balance minus (opening + draw - repay) of one row.
RollGaps == {Zero, <<1, 2000000>>, R(1)}

RoleRows ==
    {[open |-> o, draw |-> d, repay |-> p,
      close |-> RAdd(RSub(RAdd(o, d), p), g), int |-> Zero, eq |-> Zero] :
        o \in OpenValues, d \in DrawValues, p \in RepayValues, g \in RollGaps}

\* Month_Index columns of n rows: in order, reversed, and with gaps.
MonthIndexes(n) ==
    {[k \in 1..n |-> k], [k \in 1..n |-> n + 1 - k], [k \in 1..n |-> 2 * k - 1]}

FrameOf(layout, mi, rr) ==
    [k \in DOMAIN rr |->
        [c \in {layout[r] : r \in DOMAIN layout} \cup {"Month_Index"} |->
            IF c = "Month_Index" THEN mi[k]
            ELSE rr[k][CHOOSE r \in DOMAIN layout : layout[r] = c]]]

\* The frames of n rows.
Frames(n) ==
    {FrameOf(l, mi, rr) :
        l \in Layouts, mi \in MonthIndexes(n), rr \in [1..n -> RoleRows]}

\* m0_calendar.parquet next to a frame of n rows: absent, n months, n + 1.
CalendarsFor(n) == {None, [k \in 1..n |-> k], [k \in 1..(n + 1) |-> k]}

\* Output directories holding one schedule of n rows, as the revolver
\* schedule and as the financing schedule, next to the Key/Value finance
\* index.
OutDirs(n) ==
    {[rev |-> f, sch |-> f, idx |-> <<"Key", "Value">>, cal |-> c] :
        f \in Frames(n), c \in CalendarsFor(n)}

Columns(frame) == DOMAIN frame[1]

MonthSet(frame) == {frame[k]["Month_Index"] : k \in DOMAIN frame}

\* ci_m3_check.main
aliases ==
    [open |-> <<"Opening_Balance_NAD_000", "Opening_Debt_NAD_000",
                "Opening_Principal_NAD_000">>,
     draw |-> <<"New_Borrowing_NAD_000", "Draw_NAD_000", "Revolver_Draw_NAD_000">>,
     repay |-> <<"Principal_Repayment_NAD_000", "Repayment_NAD_000",
                 "Revolver_Repayment_NAD_000">>,
     close |-> <<"Closing_Balance_NAD_000", "Debt_End_NAD_000",
                 "Closing_Principal_NAD_000">>,
     int |-> <<"Interest_Expense_NAD_000", "Interest_NAD_000">>]

pick(key, cols) == first_present(cols, aliases[key])

\* A cell of a column; an optional column that is absent counts as zero.
CellOrZero(frame, k, c) == IF c = NoColumn THEN Zero ELSE frame[k][c]

\* np.all(np.diff(sorted Month_Index) == 1)
contig(frame) ==
    /\ Cardinality(MonthSet(frame)) = Len(frame)
    /\ \A m \in MonthSet(frame) : m = SetMin(MonthSet(frame)) \/ (m - 1) \in MonthSet(frame)

Residual(o, d, p, c) == RAbs(RSub(RSub(RAdd(o, d), p), c))

identity_ok(frame) ==
    LET cols == Columns(frame)
    IN \A k \in DOMAIN frame :
          RLe(Residual(frame[k][pick("open", cols)],
                       CellOrZero(frame, k, pick("draw", cols)),
                       CellOrZero(frame, k, pick("repay", cols)),
                       frame[k][pick("close", cols)]),
              IdentityTol)

ci_m3_check(dir) ==
    IF dir.rev = None \/ dir.idx = None THEN 2
    ELSE IF \E n \in {"open", "close", "int"} : pick(n, Columns(dir.rev)) = NoColumn THEN 3
    ELSE IF "Month_Index" \notin Columns(dir.rev) THEN 3
    ELSE IF contig(dir.rev) /\ identity_ok(dir.rev) THEN 0
    ELSE 4

\* validate_m3_outputs.validate
must ==
    <<"Month_Index", "Debt_Begin_NAD_000", "New_Borrowing_NAD_000",
      "Principal_Repayment_NAD_000", "Interest_NAD_000", "Debt_End_NAD_000",
      "Equity_Infusion_NAD_000">>

IndexRoles ==
    [MONTH_INDEX |-> <<"Month_Index", "MONTH_INDEX", "month_index", "Period", "Month">>,
     DEBT_END |-> <<"Debt_Principal_Closing_NAD_000", "Outstanding_Principal_NAD_000",
                    "Principal_Outstanding_NAD_000", "Debt_End_NAD_000">>,
     DRAWS |-> <<"Principal_Draws_CF_NAD_000", "Debt_Draws_NAD_000">>,
     REPAY |-> <<"Principal_Repayments_CF_NAD_000", "Debt_Repayments_NAD_000",
                 "Principal_Repayment_NAD_000">>]

CalendarMonths(dir) == {dir.cal[k] : k \in DOMAIN dir.cal}

\* The schedule flavor: required columns, the rollforward, the calendar.
ScheduleFlavorRaises(dir) ==
    \/ \E j \in DOMAIN must : must[j] \notin Columns(dir.sch)
    \/ \E k \in DOMAIN dir.sch :
          RLt(IdentityTol,
              RAbs(RSub(dir.sch[k]["Debt_End_NAD_000"],
                        RSub(RAdd(dir.sch[k]["Debt_Begin_NAD_000"],
                                  dir.sch[k]["New_Borrowing_NAD_000"]),
                             dir.sch[k]["Principal_Repayment_NAD_000"]))))
    \/ dir.cal # None /\ MonthSet(dir.sch) # CalendarMonths(dir)

\* The index flavor, as far as the role resolution: the finance indexes
\* here are Key/Value tables, which resolve no role.
IndexFlavorRaises(dir) ==
    \E role \in DOMAIN IndexRoles :
        first_present({dir.idx[k] : k \in DOMAIN dir.idx}, IndexRoles[role]) = NoColumn

RevolverCoverageRaises(dir) ==
    /\ dir.rev # None
    /\ dir.cal # None
    /\ "Month_Index" \in Columns(dir.rev)
    /\ MonthSet(dir.rev) # CalendarMonths(dir)

validate_raises(dir) ==
    \/ IF dir.sch # None THEN ScheduleFlavorRaises(dir)
       ELSE IF dir.idx # None THEN IndexFlavorRaises(dir)
       ELSE TRUE
    \/ RevolverCoverageRaises(dir)

\* What run_m3 leaves in the output directory: the revolver schedule, the
\* Key/Value finance index, and the calendar it iterated over.
EmittedArtifacts ==
    [rev |-> records, sch |-> None, idx |-> <<"Key", "Value">>,
     cal |-> [k \in DOMAIN records |-> records[k].Month_Index]]

InitVal ==
    /\ pc = "validate"
    /\ \E n \in 1..MaxSchedRows : out_dir \in OutDirs(n)
    /\ exit_code = None

\* The validators read what run_m3 has written.
ReadArtifacts ==
    /\ pc = "returned"
    /\ records # <<>>
    /\ out_dir = None
    /\ out_dir' = EmittedArtifacts
    /\ pc' = "validate"
    /\ UNCHANGED <<error, exit_code, loanVars, m3Vars, wfVars, rawVars, costVars,
                   engVars, tieVars, jrVars>>

CiM3Check ==
    /\ pc = "validate"
    /\ exit_code' = ci_m3_check(out_dir)
    /\ pc' = "validated"
    /\ UNCHANGED <<error, out_dir, loanVars, m3Vars, wfVars, rawVars, costVars,
                   engVars, tieVars, jrVars>>

ValidateM3Outputs ==
    /\ pc = "validate"
    /\ IF validate_raises(out_dir)
       THEN /\ pc' = "raised"
            /\ error' = "SystemExit"
            /\ UNCHANGED exit_code
       ELSE /\ pc' = "validated"
            /\ exit_code' = 0
            /\ UNCHANGED error
    /\ UNCHANGED <<out_dir, loanVars, m3Vars, wfVars, rawVars, costVars, engVars,
                   tieVars, jrVars>>

---------------------------------------------------------------------------
(* The cash link between the cash-flow statement's closing cash and the    *)
(* balance sheet's cash: of the IFRS rebuild (allrunners run_m7_5b), of    *)
(* the statement rebuild (CImage run_m7_5b, step 4b) and of the validator  *)
(* (tools/validate_m7_5b.py).  Both columns are present, one row a period. *)

\* link_max_abs <= 1e-9, for a non-negative fraction n/d: n * 10^9 <= d.
ExactLink(x) == x[1] <= x[2] \div 1000000000

\* The literal of the statement rebuild's and of the validator's check.
CashLinkTol == <<1, 1000000>>

ClosingCashValues == {R(50)}

\* Closing_Cash minus Cash_and_Cash_Equivalents of one period.
CashGaps == {Zero, <<1, 2000000>>, <<1, 2>>, R(-2), R(7)}

CashFlows(n) ==
    {[k \in 1..n |-> [Month_Index |-> k, Closing_Cash_NAD_000 |-> cs[k]]] :
        cs \in [1..n -> ClosingCashValues]}

\* The balance sheets next to a cash-flow statement: the same periods, the
\* cash off by a gap.
CashSheetsFor(flows) ==
    {[k \in DOMAIN flows |->
        [Month_Index |-> k,
         Cash_and_Cash_Equivalents_NAD_000 |->
             RSub(flows[k].Closing_Cash_NAD_000, gaps[k])] ] :
        gaps \in [DOMAIN flows -> CashGaps]}

\* (cf[closing cash] - bs[cash]).abs().max(), the rows matched by position
\* (allrunners, validator) or by an inner merge on Month_Index (CImage),
\* which agree on statements over the same timeline.
link_max_abs(flows, sheet) ==
    LET diffs == {RAbs(RSub(flows[k].Closing_Cash_NAD_000,
                            sheet[k].Cash_and_Cash_Equivalents_NAD_000)) :
                  k \in DOMAIN flows}
    IN CHOOSE d \in diffs : \A e \in diffs : RLe(e, d)

InitLink ==
    /\ pc = "cash_link"
    /\ strict \in BOOLEAN
    /\ dbg = None
    /\ \E n \in 1..MaxTiePeriods :
          /\ cf \in CashFlows(n)
          /\ bs \in CashSheetsFor(cf)

\* allrunners run_m7_5b: the sanity link after the artifacts are emitted.
IfrsCashLink ==
    /\ pc = "cash_link"
    /\ LET mismatch == ~ExactLink(link_max_abs(cf, bs))
       IN IF mismatch /\ strict
          THEN /\ pc' = "raised"
               /\ error' = "RuntimeError"
               /\ UNCHANGED dbg
          ELSE /\ dbg' = [module |-> "ifrs_rebuild",
                          notes |-> IF mismatch
                                    THEN <<"[WARN] CF/BS cash link mismatch">>
                                    ELSE <<"[OK] CF Closing_Cash equals BS Cash_and_Cash_Equivalents">>]
               /\ pc' = "cash_linked"
               /\ UNCHANGED error
    /\ UNCHANGED <<bs, strict, cf, loanVars, m3Vars, wfVars, rawVars, costVars,
                   engVars, valVars, jrVars>>

\* CImage run_m7_5b, step 4b: the balance sheet's cash is authoritative; a
\* mismatch is printed and noted, the emitted closing cash is the balance
\* sheet's, and the strict flag is not consulted.
StatementCashLink ==
    /\ pc = "cash_link"
    /\ dbg' = [module |-> "statement_rebuild",
               notes |-> IF RLt(CashLinkTol, link_max_abs(cf, bs))
                         THEN <<"[WARN] M5 Closing Cash mismatches M6 BS Cash">>
                         ELSE <<>>,
               Closing_Cash_NAD_000 |->
                   [k \in DOMAIN bs |-> bs[k].Cash_and_Cash_Equivalents_NAD_000],
               cf_bs_cash_link_ok |-> TRUE]
    /\ pc' = "cash_linked"
    /\ UNCHANGED <<error, bs, strict, cf, loanVars, m3Vars, wfVars, rawVars, costVars,
                   engVars, valVars, jrVars>>

\* validate_m7_5b.validate: the optional cash link; it takes no strict flag
\* and a mismatch leaves the return code alone.
ValidatorCashLink ==
    /\ pc = "cash_link"
    /\ dbg' = [module |-> "validator",
               notes |-> IF RLt(link_max_abs(cf, bs), CashLinkTol)
                         THEN <<"[OK] Cash link">>
                         ELSE <<"[WARN] Cash link: mismatch between CF closing cash and BS cash">>]
    /\ pc' = "cash_linked"
    /\ UNCHANGED <<error, bs, strict, cf, loanVars, m3Vars, wfVars, rawVars, costVars,
                   engVars, valVars, jrVars>>

---------------------------------------------------------------------------
(* The junior layer of the statement rebuild in askedfiles0908/runner.py   *)
(* (run_m7_5b): the revenue share is paid out of what CFO leaves after the *)
(* senior service and the policy's buffer.  Whole numbers, thousands NAD.  *)

\* Policy.dscr_buffer_nad_000: the default and a positive buffer.
Policies == {[dscr_buffer_nad_000 |-> 0], [dscr_buffer_nad_000 |-> 10]}

JrCfoValues == {-20, 0, 30, 100}

\* Interest plus principal paid of a month; 0 also when the M3 schedule or
\* one of its paid columns is absent.
JrSeniorServiceValues == {0, 60}

\* Revenue times the revenue-share percentage; negative on negative revenue.
RevShareSchedValues == {-5, 0, 30, 150}

JrAvailable(cfo, senior_service, buffer) == Max(0, cfo - senior_service - buffer)

\* Slip: the scheduled amount paid whatever is available.
ActualPaidInFull(scheduled_out, available) == scheduled_out

ActualPaid(scheduled_out, available) == Min(scheduled_out, available)

\* np.where(scheduled_out > 0, actual_paid, 0.0)
RevSharePaid(scheduled_out, actual_paid) == IF scheduled_out > 0 THEN actual_paid ELSE 0

InitJr ==
    /\ pc = "junior_rebuild"
    /\ policy \in Policies
    /\ out_cf = <<>>

\* One month of the vectorised junior layer and of the rebuilt cash flow.
JuniorLayerPeriod ==
    /\ pc = "junior_rebuild"
    /\ Len(out_cf) < MaxPeriods
    /\ \E cfo \in JrCfoValues, senior_service \in JrSeniorServiceValues,
          scheduled_out \in RevShareSchedValues :
        LET available == JrAvailable(cfo, senior_service, policy.dscr_buffer_nad_000)
            actual_paid == ActualPaid(scheduled_out, available)
            cff_in == 0
            cff_out == RevSharePaid(scheduled_out, actual_paid)
        IN  out_cf' = Append(out_cf,
               [Month_Index |-> Len(out_cf) + 1,
                CFO_NAD_000 |-> cfo,
                senior_service |-> senior_service,
                scheduled_out |-> scheduled_out,
                available |-> available,
                CFF_Junior_In_NAD_000 |-> cff_in,
                CFF_Junior_Out_NAD_000 |-> cff_out,
                CFF_Junior_Net_NAD_000 |-> cff_in - cff_out])
    /\ UNCHANGED <<pc, error, policy, loanVars, m3Vars, wfVars, rawVars, costVars,
                   engVars, tieVars, valVars>>

JuniorLayerEmit ==
    /\ pc = "junior_rebuild"
    /\ Len(out_cf) = MaxPeriods
    /\ pc' = "returned"
    /\ UNCHANGED <<error, jrVars, loanVars, m3Vars, wfVars, rawVars, costVars,
                   engVars, tieVars, valVars>>

\* The routines that are not running hold no data.
IdleRaw == raw_row = None /\ prev_df = None

IdleCost == row = None /\ revolver_df = None

IdleEng ==
    /\ finance_stack_df = <<>>
    /\ pfinance_case_selector_df = <<>>
    /\ rows = <<>>
    /\ r_pos = 0
    /\ revolver_schedules = <<>>
    /\ insurance_schedules = <<>>
    /\ outputs = <<>>

NoError == error = None

IdleTie == bs = <<>> /\ strict = TRUE /\ dbg = None /\ cf = <<>>

IdleVal == out_dir = None /\ exit_code = None

IdleJr == policy = None /\ out_cf = <<>>

IdleOthers == NoError /\ IdleRaw /\ IdleCost /\ IdleEng /\ IdleTie /\ IdleVal /\ IdleJr

\* A run of create_loan_schedule alone.
InitLoanProgram == InitLoan /\ IdleM3 /\ IdleWaterfall /\ IdleOthers

SpecLoan == InitLoanProgram /\ [][LoanStep \/ LoanReturn]_vars

\* A call of _create_revolver_schedule alone.
InitCostProgram ==
    /\ IdleLoan /\ IdleM3 /\ IdleWaterfall
    /\ NoError /\ IdleRaw /\ InitCost /\ IdleEng /\ IdleTie /\ IdleVal /\ IdleJr

SpecRevolverCost == InitCostProgram /\ [][CreateRevolverSchedule]_vars

\* Calls of create_financing_schedules alone.
InitEngProgram ==
    /\ IdleLoan /\ IdleM3 /\ IdleWaterfall
    /\ NoError /\ IdleRaw /\ IdleCost /\ InitEng /\ IdleTie /\ IdleVal /\ IdleJr

NextEng == SelectCase \/ ProcessRow \/ ReturnSchedules \/ CallAgain

SpecEngine == InitEngProgram /\ [][NextEng]_vars

\* Calls of create_loan_schedule on rows as passed in.
InitRawProgram ==
    /\ IdleLoan /\ IdleM3 /\ IdleWaterfall
    /\ NoError /\ InitRaw /\ IdleCost /\ IdleEng /\ IdleTie /\ IdleVal /\ IdleJr

NextRaw == ParseLoanParams \/ LoanStep \/ LoanReturn \/ CallAgainAsAnnuity

SpecLoanRaw == InitRawProgram /\ [][NextRaw]_vars

\* One tie check on one balance sheet.
InitTieProgram ==
    /\ IdleLoan /\ IdleM3 /\ IdleWaterfall
    /\ NoError /\ IdleRaw /\ IdleCost /\ IdleEng /\ InitTie /\ IdleVal /\ IdleJr

NextTie == RebuildTieCheck \/ VerifierTieCheck \/ JuniorRebuildTieCheck

SpecTieCheck == InitTieProgram /\ [][NextTie]_vars

\* A run of run_m3 alone.
InitRevolverProgram == IdleLoan /\ InitM3 /\ IdleWaterfall /\ IdleOthers

SpecRevolver == InitRevolverProgram /\ [][RevolverStep \/ RevolverReturn]_vars

\* A validator on a given output directory, or on the one run_m3 wrote.
InitValProgram ==
    /\ IdleLoan /\ IdleM3 /\ IdleWaterfall
    /\ NoError /\ IdleRaw /\ IdleCost /\ IdleEng /\ IdleTie /\ InitVal /\ IdleJr

NextValidate ==
    RevolverStep \/ RevolverReturn \/ ReadArtifacts \/ CiM3Check \/ ValidateM3Outputs

SpecValidate ==
    /\ InitValProgram \/ InitRevolverProgram
    /\ [][NextValidate]_vars

\* One cash-link check on one pair of statements.
InitLinkProgram ==
    /\ IdleLoan /\ IdleM3 /\ IdleWaterfall
    /\ NoError /\ IdleRaw /\ IdleCost /\ IdleEng /\ InitLink /\ IdleVal /\ IdleJr

NextLink == IfrsCashLink \/ StatementCashLink \/ ValidatorCashLink

SpecCashLink == InitLinkProgram /\ [][NextLink]_vars

\* A run of the junior layer of the askedfiles0908 rebuild.
InitJrProgram ==
    /\ IdleLoan /\ IdleM3 /\ IdleWaterfall
    /\ NoError /\ IdleRaw /\ IdleCost /\ IdleEng /\ IdleTie /\ IdleVal /\ InitJr

SpecJuniorLayer == InitJrProgram /\ [][JuniorLayerPeriod \/ JuniorLayerEmit]_vars

NextFinancing == LoanStep \/ LoanReturn \/ RevolverStep \/ RevolverReturn

SpecFinancing ==
    /\ InitLoanProgram \/ InitRevolverProgram
    /\ [][NextFinancing]_vars

NextWaterfall ==
    EnsureOpeningInflow \/ ResolveSubordination \/ AllocatePeriod \/ EmitStatements

\* A run of run_m7_5b alone.
InitWaterfallProgram == IdleLoan /\ IdleM3 /\ InitWaterfall /\ IdleOthers

SpecWaterfall == InitWaterfallProgram /\ [][NextWaterfall]_vars

---------------------------------------------------------------------------
(* Properties of the financing schedules.                                  *)

LoanRowsDone == 1 .. i

LoanMonthlyRate == Norm(loan_params.Rate_Pct, 1200)

\* C1: in every schedule of the financing generators (the loan schedule of
\* create_loan_schedule, the revolver schedule of run_m3) every row has
\* closing = opening + draw - repay, month 1 opens at 0 and every later
\* month opens at the closing balance of the month before.
C1_Rollforward ==
    /\ \A m \in LoanRowsDone :
        /\ df[m].Closing_Balance =
               RSub(RAdd(df[m].Opening_Balance, df[m].Drawdown),
                    df[m].Principal_Repayment)
        /\ m = 1 => df[m].Opening_Balance = Zero
        /\ m > 1 => df[m].Opening_Balance = df[m - 1].Closing_Balance
    /\ \A k \in 1 .. Len(records) :
        /\ records[k].Revolver_Close_Balance_NAD_000 =
               RSub(RAdd(records[k].Revolver_Open_Balance_NAD_000,
                         records[k].Revolver_Draw_NAD_000),
                    records[k].Revolver_Repayment_NAD_000)
        /\ k = 1 => records[k].Revolver_Open_Balance_NAD_000 = Zero
        /\ k > 1 => records[k].Revolver_Open_Balance_NAD_000 =
                        records[k - 1].Revolver_Close_Balance_NAD_000

\* A finished loan schedule with a month that opens with a balance and
\* repays part of it, so that all three terms of the identity are in play.
C1_Witness ==
    /\ pc = "returned"
    /\ \E m \in LoanRowsDone :
        /\ df[m].Opening_Balance # Zero
        /\ df[m].Principal_Repayment # Zero
        /\ df[m].Closing_Balance # Zero
    /\ \E m \in LoanRowsDone : df[m].Drawdown # Zero

\* C2: for every standard loan with tenor <= horizon the closing balance at
\* the tenor month is 0, whatever the policy, principal, draw window and
\* grace.
C2_TerminalClearance ==
    (1 <= tenor /\ tenor <= horizon /\ tenor <= i)
        => df[tenor].Closing_Balance = Zero

\* C7: under the bullet policy the repayment is 0 in every month before the
\* tenor month, and at the tenor month it equals opening + draw.
C7_BulletDeferral ==
    amort_type = "bullet" =>
        \A m \in LoanRowsDone :
            /\ m < tenor => df[m].Principal_Repayment = Zero
            /\ m = tenor => df[m].Principal_Repayment =
                                RAdd(df[m].Opening_Balance, df[m].Drawdown)

\* C8: under the straight policy the repayment in every month of the
\* amortization window before the tenor month is the balance at the start
\* of the window divided by the length of the window.
C8_StraightEquality ==
    amort_type = "straight" =>
        \A m \in LoanRowsDone :
            (amort_nper > 0 /\ amort_start <= m /\ m < tenor) =>
                df[m].Principal_Repayment =
                    RDiv(df[amort_start].Opening_Balance,
                         R(tenor - amort_start + 1))

\* A straight loan with two instalment months before the tenor month, both
\* repaying a non-zero amount.
C8_Witness ==
    /\ amort_type = "straight"
    /\ \E m \in LoanRowsDone :
        /\ amort_start <= m
        /\ m + 1 < tenor
        /\ m + 1 <= i
        /\ df[m].Principal_Repayment # Zero
        /\ df[m + 1].Principal_Repayment = df[m].Principal_Repayment

AmortMonthPairs == {m \in LoanRowsDone : amort_start <= m /\ m + 1 <= i}

\* C9 as stated: under the annuity policy, from the amortization start
\* month on, the interest of month m+1 is never greater than that of month m.
C9_AnnuityMonotonic_Original ==
    (amort_type = "annuity" /\ amort_nper > 0) =>
        \A m \in AmortMonthPairs :
            RLe(df[m + 1].Interest_Accrued, df[m].Interest_Accrued)

\* C9, amended: the same, for a loan whose principal and rate are not
\* negative.
C9_AnnuityMonotonic ==
    (/\ amort_type = "annuity"
     /\ amort_nper > 0
     /\ loan_params.Principal >= 0
     /\ loan_params.Rate_Pct >= 0) =>
        \A m \in AmortMonthPairs :
            RLe(df[m + 1].Interest_Accrued, df[m].Interest_Accrued)

\* An annuity loan with positive principal and rate whose interest falls
\* from one amortization month to the next, both before the tenor month.
C9_Witness ==
    /\ amort_type = "annuity"
    /\ loan_params.Principal > 0
    /\ loan_params.Rate_Pct > 0
    /\ \E m \in AmortMonthPairs :
        /\ m + 1 < tenor
        /\ RLt(df[m + 1].Interest_Accrued, df[m].Interest_Accrued)
        /\ RLt(Zero, df[m + 1].Interest_Accrued)

\* C10: in every month 1 <= m <= tenor the interest is the opening balance
\* times the annual rate over 12, the month's draw excluded; it is 0 when
\* the month opens at 0 and 0 in every month after the tenor.
C10_InterestOnOpening ==
    \A m \in LoanRowsDone :
        /\ m <= tenor => df[m].Interest_Accrued =
                             RMul(df[m].Opening_Balance, LoanMonthlyRate)
        /\ df[m].Opening_Balance = Zero => df[m].Interest_Accrued = Zero
        /\ m > tenor => df[m].Interest_Accrued = Zero

\* A schedule in which a month with a draw opens with a balance and accrues
\* interest, month 1 draws without interest, and a month lies past the tenor.
C10_Witness ==
    /\ \E m \in LoanRowsDone :
        /\ df[m].Opening_Balance # Zero
        /\ df[m].Drawdown # Zero
        /\ df[m].Interest_Accrued # Zero
    /\ 1 <= i
    /\ df[1].Drawdown # Zero
    /\ df[1].Interest_Accrued = Zero
    /\ tenor < i

---------------------------------------------------------------------------
(* Properties of the cash-waterfall allocator.                             *)

PeriodsDone == 1 .. Len(alloc)

RECURSIVE ShortfallTo(_)
\* Sum over the periods <= t of scheduled_out - actual_out.
ShortfallTo(t) ==
    IF t = 0 THEN 0
    ELSE ShortfallTo(t - 1)
         + (alloc[t].JUN_OUT_SCHED_NAD_000 - alloc[t].actual_out)

\* Sum of the capital-in amounts the junior flow log records for month t.
LoggedCapitalIn(t) == SumAmounts(junior_log, JUNIOR_FLOW_IN_TYPES, t)

\* C3 as stated: in every period available >= 0 and
\* 0 <= actual_out <= min(scheduled_out, available), for any inputs.
C3_WaterfallBound_Original ==
    \A t \in PeriodsDone :
        /\ alloc[t].available >= 0
        /\ 0 <= alloc[t].actual_out
        /\ alloc[t].actual_out
               <= Min(alloc[t].JUN_OUT_SCHED_NAD_000, alloc[t].available)

\* C3, amended: in every period available >= 0, and in every period whose
\* scheduled outflow is not negative
\* 0 <= actual_out <= min(scheduled_out, available).
C3_WaterfallBound ==
    \A t \in PeriodsDone :
        /\ alloc[t].available >= 0
        /\ alloc[t].JUN_OUT_SCHED_NAD_000 >= 0 =>
            /\ 0 <= alloc[t].actual_out
            /\ alloc[t].actual_out
                   <= Min(alloc[t].JUN_OUT_SCHED_NAD_000, alloc[t].available)

\* One period whose operating cash flow is negative while a distribution
\* is scheduled, and one where the scheduled distribution exceeds a
\* positive availability.
C3_Witness ==
    /\ \E t \in PeriodsDone :
        /\ alloc[t].CFO_NAD_000 - alloc[t].senior_service - alloc[t].tax_paid < 0
        /\ alloc[t].JUN_OUT_SCHED_NAD_000 > 0
        /\ alloc[t].actual_out = 0
    /\ \E t \in PeriodsDone :
        /\ alloc[t].available > 0
        /\ alloc[t].JUN_OUT_SCHED_NAD_000 > alloc[t].available
        /\ alloc[t].actual_out = alloc[t].available

C5_PayableRunningSum ==
    \A t \in PeriodsDone :
        /\ alloc[t].payable_eop = ShortfallTo(t)
        /\ t > 1 => alloc[t].payable_eop >= alloc[t - 1].payable_eop

\* A shortfall in one period followed by a period with cash to spare, the
\* payable carried over unchanged.
C5_Witness ==
    \E t \in PeriodsDone :
        /\ t > 1
        /\ alloc[t - 1].payable_eop > 0
        /\ alloc[t].available > alloc[t].JUN_OUT_SCHED_NAD_000
        /\ alloc[t].payable_eop = alloc[t - 1].payable_eop

\* C6 as stated: in every period the junior net financing cash flow is
\* capital_in - actual_out, capital_in being the sum of the period's
\* capital-in flows recorded in the junior flow log.
C6_NetCff_Original ==
    \A t \in PeriodsDone :
        alloc[t].CFF_NAD_000 = LoggedCapitalIn(t) - alloc[t].actual_out

\* C6, amended: the same, capital_in being the logged capital-in flows of
\* the period plus, when the log records no capital-in flow at all, the
\* opening inflow of Ticket_USD x FX / 1000 that the allocator synthesizes
\* in the first model month.
C6_NetCff ==
    \A t \in PeriodsDone :
        alloc[t].CFF_NAD_000 =
            LoggedCapitalIn(t)
            + (IF InflowMonths(junior_log) = {} /\ t = 1
               THEN ((IF sel.Ticket_USD = 0 THEN 500000 ELSE sel.Ticket_USD)
                     * df_fx[1]) \div 1000
               ELSE 0)
            - alloc[t].actual_out

\* A period with a logged capital inflow and a distribution paid in part.
C6_Witness ==
    \E t \in PeriodsDone :
        /\ LoggedCapitalIn(t) > 0
        /\ alloc[t].actual_out > 0
        /\ alloc[t].actual_out < alloc[t].JUN_OUT_SCHED_NAD_000

---------------------------------------------------------------------------
(* Properties of the loan timing: amortization window and draw window.     *)

\* C11: the repayment is 0 in every month before
\* amort_start = min(draw_end + principal_grace + 1, tenor), the
\* amortization window has tenor - amort_start + 1 months, and under the
\* straight policy with a positive drawn balance the repayment of month
\* amort_start is positive.
C11_AmortWindow ==
    LET start == Min(draw_end + grace_prin_m + 1, tenor)
    IN  /\ amort_start = start
        /\ amort_nper = tenor - start + 1
        /\ \A m \in LoanRowsDone :
               m < start => df[m].Principal_Repayment = Zero
        /\ (/\ amort_type = "straight"
            /\ start \in LoanRowsDone
            /\ RLt(Zero, RAdd(df[start].Opening_Balance, df[start].Drawdown)))
           => RLt(Zero, df[start].Principal_Repayment)

\* A straight loan with a grace month: a drawn balance is carried through a
\* month before the window without repayment, and the first window month,
\* ahead of the tenor month, repays.
C11_Witness ==
    /\ amort_type = "straight"
    /\ grace_prin_m > 0
    /\ amort_start \in LoanRowsDone
    /\ amort_start < tenor
    /\ amort_start > 1
    /\ RLt(Zero, df[amort_start - 1].Opening_Balance)
    /\ df[amort_start - 1].Principal_Repayment = Zero
    /\ RLt(Zero, df[amort_start].Principal_Repayment)

RECURSIVE SumDraws(_)
\* Sum of the Drawdown column over months 1 .. n.
SumDraws(n) == IF n = 0 THEN Zero ELSE RAdd(SumDraws(n - 1), df[n].Drawdown)

DrawWindowEmpty == draw_end < draw_start

\* The draw of each month is principal / window length inside the window
\* [draw_start, draw_end] and 0 outside it, hence 0 everywhere when the
\* window is empty or inverted.
DrawsFollowWindow ==
    \A m \in LoanRowsDone :
        /\ (draw_start <= m /\ m <= draw_end) =>
               df[m].Drawdown = RDiv(principal, R(draw_end - draw_start + 1))
        /\ ~(draw_start <= m /\ m <= draw_end) => df[m].Drawdown = Zero
        /\ DrawWindowEmpty => df[m].Drawdown = Zero

\* C12 as stated: equal draws of principal / window length inside the draw
\* window, 0 outside it and 0 everywhere for an empty or inverted window,
\* and the draws of the whole horizon sum to the principal.
C12_DrawWindow_Original ==
    /\ DrawsFollowWindow
    /\ pc = "returned" => SumDraws(horizon) = principal

\* C12, amended: the same, the draws of the whole horizon summing to the
\* principal when the draw window is not empty and to 0 when it is empty
\* or inverted.
C12_DrawWindow ==
    /\ DrawsFollowWindow
    /\ pc = "returned" =>
           SumDraws(horizon) = IF DrawWindowEmpty THEN Zero ELSE principal

\* A finished schedule whose draw window, cut short by the tenor, starts
\* after month 1 and spans two months or more.
C12_Witness ==
    /\ pc = "returned"
    /\ loan_params.Principal > 0
    /\ draw_start >= 2
    /\ draw_months >= 2
    /\ loan_params.Draw_End_M > draw_end
    /\ df[1].Drawdown = Zero
    /\ df[draw_start].Drawdown = df[draw_end].Drawdown
    /\ RLt(Zero, df[draw_start].Drawdown)
    /\ SumDraws(horizon) = principal

---------------------------------------------------------------------------
(* Properties of the revolver cost schedule.                               *)

\* The instrument row of the example: principal 2000 at 12 % a year, drawn
\* from month 7, tenor 36, over a calendar of 60 months.
ExampleRevolverRow ==
    [Line_ID |-> 10, Principal |-> 2000, Rate_Pct |-> 12,
     Tenor_Months |-> 36, Draw_Start_M |-> 7]

ExampleRevolverSchedule ==
    create_revolver_schedule(ExampleRevolverRow, [k \in 1 .. 60 |-> k])

\* C13: the revolver cost schedule has opening, draw, repayment and closing
\* 0 in every month of the horizon, and interest
\* 0.5 x principal x (annual rate / 12) in every month m with
\* draw_start <= m <= tenor and 0 in every other month; principal 2000 at
\* 12 %, draw_start 7, tenor 36 gives 10 in months 7 to 36 and 0 elsewhere.
C13_RevolverCost ==
    /\ revolver_df # None =>
        /\ Len(revolver_df) = horizon
        /\ \A m \in 1 .. horizon :
            /\ revolver_df[m].Month_Index = m
            /\ revolver_df[m].Opening_Balance = Zero
            /\ revolver_df[m].Drawdown = Zero
            /\ revolver_df[m].Repayment = Zero
            /\ revolver_df[m].Closing_Balance = Zero
            /\ revolver_df[m].Interest_Accrued =
                   IF row.Draw_Start_M <= m /\ m <= row.Tenor_Months
                   THEN RMul(<<1, 2>>,
                             RMul(R(row.Principal), Norm(row.Rate_Pct, 1200)))
                   ELSE Zero
    /\ \A m \in 1 .. 60 :
           ExampleRevolverSchedule[m].Interest_Accrued =
               IF 7 <= m /\ m <= 36 THEN R(10) ELSE Zero

\* A returned schedule with months before the draw start, months that bear
\* the non-zero cost, and a month after the tenor.
C13_Witness ==
    /\ pc = "returned"
    /\ revolver_df # None
    /\ row.Draw_Start_M >= 2
    /\ row.Tenor_Months > row.Draw_Start_M
    /\ row.Tenor_Months < horizon
    /\ revolver_df[1].Interest_Accrued = Zero
    /\ RLt(Zero, revolver_df[row.Draw_Start_M].Interest_Accrued)
    /\ revolver_df[row.Tenor_Months].Interest_Accrued =
           revolver_df[row.Draw_Start_M].Interest_Accrued
    /\ revolver_df[horizon].Interest_Accrued = Zero

---------------------------------------------------------------------------
(* Properties of create_financing_schedules.                               *)

\* The case the selector names: the Value of its first PFinance_Case row.
NamedCase ==
    LET ks == {k \in 1 .. Len(pfinance_case_selector_df) :
                  pfinance_case_selector_df[k].Key = "PFinance_Case"}
    IN  pfinance_case_selector_df[CHOOSE k \in ks : \A j \in ks : k <= j].Value

SelectorNamesACase ==
    \E k \in 1 .. Len(pfinance_case_selector_df) :
        pfinance_case_selector_df[k].Key = "PFinance_Case"

\* Line ids of the catalog rows of the named case whose Active flag is 1.
ActiveLineIds ==
    {finance_stack_df[k].Line_ID :
        k \in {j \in 1 .. Len(finance_stack_df) :
                  /\ finance_stack_df[j].Case_Name = NamedCase
                  /\ finance_stack_df[j].Active = 1}}

LineIdsOf(frame) == {frame[k].Line_ID : k \in 1 .. Len(frame)}

\* C14: create_financing_schedules processes exactly the catalog rows of
\* the active case whose Active flag is 1: the index holds exactly their
\* line ids, the revolver and insurance schedules hold line ids of that
\* subset only, and a second call on the same inputs returns the same.
C14_ActiveCaseSubset ==
    /\ \A c \in 1 .. Len(outputs) :
        /\ LineIdsOf(outputs[c].index) = ActiveLineIds
        /\ Len(outputs[c].index) = Cardinality(ActiveLineIds)
        /\ LineIdsOf(outputs[c].revolver) \subseteq ActiveLineIds
        /\ LineIdsOf(outputs[c].insurance) \subseteq ActiveLineIds
    /\ Len(outputs) = 2 => outputs[1] = outputs[2]

\* Two calls have returned; the catalog holds a selected revolver, and a
\* row that is left out (inactive, or of the other case).
C14_Witness ==
    /\ Len(outputs) = 2
    /\ outputs[2].revolver # <<>>
    /\ Len(outputs[2].index) < Len(finance_stack_df)
    /\ ActiveLineIds # {}

\* A call on a selector without a PFinance_Case row has got past the case
\* selection.
MissingKeyCallDone ==
    /\ finance_stack_df # <<>>
    /\ ~SelectorNamesACase
    /\ pc # "create_financing_schedules"

---------------------------------------------------------------------------
(* Properties of create_loan_schedule on rows as passed in.                *)

\* What "treated as 0" means for numeric field f, on the values the
\* schedule is built from (a draw start of 0 is raised to 1 in any case).
SanitisedAsZero(f) ==
    CASE f = "Principal" -> loan_params.Principal = 0
      [] f = "Rate_Pct" -> loan_params.Rate_Pct = 0
      [] f = "Tenor_Months" -> tenor = 0
      [] f = "Draw_Start_M" -> draw_start = 1
      [] f = "Draw_End_M" -> loan_params.Draw_End_M = 0
      [] f = "Grace_Principal_M" -> grace_prin_m = 0

\* C16: create_loan_schedule raises no error for a malformed (non-numeric,
\* empty or missing) value in a numeric field of the row: the value is
\* treated as 0 and a schedule of horizon rows is returned.
C16_MalformedNumeric ==
    raw_row # None =>
        /\ pc # "raised"
        /\ pc \in {"create_loan_schedule", "returned"} =>
               \A f \in IntFields \cup FloatFields :
                   raw_row[f].t \in MalformedKinds => SanitisedAsZero(f)
        /\ pc = "returned" => (i = horizon /\ Len(df) = horizon)

\* C17: for an amortization policy string other than annuity, straight or
\* bullet, or a missing one, create_loan_schedule raises nothing of its own
\* and returns exactly the schedule of the annuity policy on the same row.
C17_UnknownPolicyIsAnnuity ==
    /\ (prev_df # None /\ pc = "returned") => df = prev_df
    /\ (prev_df # None /\ pc # "parse_loan_params") => pc # "raised"
    /\ (raw_row # None /\ pc = "raised") =>
           \E f \in IntFields : IvalRaises(raw_row[f])

\* Both calls have returned, for a policy string that is not a known one,
\* with a balance repaid by instalments before the tenor month.
C17_Witness ==
    /\ prev_df # None
    /\ amort_type = "annuity"
    /\ pc = "returned"
    /\ amort_nper >= 2
    /\ \E m \in 1 .. horizon :
        /\ m < tenor
        /\ RLt(Zero, prev_df[m].Principal_Repayment)
        /\ RLt(Zero, prev_df[m].Closing_Balance)

---------------------------------------------------------------------------
(* Properties of the allocator's optional inputs.                          *)

HasAnyColumn(table, names) ==
    \E k \in 1 .. Len(names) : names[k] \in table.columns

\* The senior-service schedule is absent or lacks a paid column.
SeniorUnavailable ==
    \/ df_m3 = None
    \/ ~HasAnyColumn(df_m3, SENIOR_INT_PAID_CANDS)
    \/ ~HasAnyColumn(df_m3, SENIOR_PRI_PAID_CANDS)

\* The tax-paid schedule is absent or lacks the paid column.
TaxUnavailable ==
    \/ df_m4 = None
    \/ ~HasAnyColumn(df_m4, TAX_PAID_CANDS)

IsSeniorWarning(w) ==
    w \in {"M3 revolver schedule not found; subordination uses CFO only.",
           "Senior service columns not found in M3; assuming zero."}

IsTaxWarning(w) ==
    w \in {"M4 tax schedule not found; subordination uses no tax paid.",
           "Tax paid column not found in M4; assuming zero."}

Resolved == pc \in {"allocate", "returned"}

---------------------------------------------------------------------------
\* C19: whenever a tie check has run on a balance sheet with a period where
\* |assets total - liabilities-and-equity total| > 1e-6, the check raised:
\* the sheet is never accepted, with or without a warning.
C19_TieFailsHard ==
    (pc \in {"tie_checked", "raised"} /\ bs # <<>>
        /\ RLt(tie_tol, max_abs_diff(bs)))
    => pc = "raised"


---------------------------------------------------------------------------
\* The column of a frame that holds a role, whatever the naming.
RoleColumn(frame, role) ==
    CHOOSE c \in Columns(frame) : \E l \in Layouts : role \in DOMAIN l /\ l[role] = c

HasBadRow(frame) ==
    \E k \in DOMAIN frame :
        RLt(IdentityTol,
            Residual(frame[k][RoleColumn(frame, "open")],
                     frame[k][RoleColumn(frame, "draw")],
                     frame[k][RoleColumn(frame, "repay")],
                     frame[k][RoleColumn(frame, "close")]))

ValidatorDone == pc \in {"validated", "raised"} /\ out_dir # None

Rejected == pc = "raised" \/ exit_code # 0

Accepted == pc = "validated" /\ exit_code = 0

\* C20: a validator that has run rejected the schedule (raised or returned
\* a non-zero exit code) if some row has |opening + draw - repay - closing|
\* > 1e-6, and accepted it if every row is within the tolerance and the
\* month index is contiguous; the schedule written by run_m3 included.
C20_RollforwardGate ==
    ValidatorDone =>
        /\ HasBadRow(out_dir.rev) => Rejected
        /\ (~HasBadRow(out_dir.rev) /\ contig(out_dir.rev)) => Accepted


---------------------------------------------------------------------------
\* The statements checked differ in some period by more than 1e-6.
CashMismatch == bs # <<>> /\ cf # <<>> /\ RLt(CashLinkTol, link_max_abs(cf, bs))

IsMismatchReport(note) ==
    note \in {"[WARN] CF/BS cash link mismatch",
              "[WARN] M5 Closing Cash mismatches M6 BS Cash",
              "[WARN] Cash link: mismatch between CF closing cash and BS cash"}

\* C21: when the cash link has been checked on statements whose closing
\* cash and balance-sheet cash differ beyond the tolerance, a run with the
\* strict flag set has raised, and a run with the flag off has reported the
\* mismatch and gone on.  (The validator has no strict flag: only the
\* second half binds it.)
C21_CashLinkPolicy ==
    (pc \in {"cash_linked", "raised"} /\ CashMismatch)
    => IF strict /\ (pc = "raised" \/ dbg.module # "validator")
       THEN pc = "raised"
       ELSE /\ pc = "cash_linked"
            /\ \E k \in DOMAIN dbg.notes : IsMismatchReport(dbg.notes[k])


---------------------------------------------------------------------------
Ties(sheet_row) ==
    Abs(sheet_row.Assets_Total_NAD_000
        - sheet_row.Liabilities_And_Equity_Total_NAD_000) * 1000000 <= 1

\* C22: in every period of a consolidated run, the balance sheet M6 built
\* and the balance sheet the M7.5B rebuild emits both satisfy
\* |Assets_Total - Liabilities_And_Equity_Total| <= 1e-6.
C22_BalanceSheetsTie ==
    \A t \in DOMAIN alloc : Ties(alloc[t].m6) /\ Ties(alloc[t])

\* A completed run whose junior layer moved the cash and left a payable.
C22_Witness ==
    /\ pc = "returned"
    /\ alloc # <<>>
    /\ \E t \in DOMAIN alloc :
          /\ alloc[t].cash_delta # 0
          /\ alloc[t].payable_eop > 0
          /\ alloc[t].m6.Assets_Total_NAD_000 # 0


---------------------------------------------------------------------------
---------------------------------------------------------------------------
RECURSIVE EquityMovementTo(_)
\* Sum over the periods <= t of capital_in - scheduled_out.
EquityMovementTo(t) ==
    IF t = 0 THEN 0
    ELSE alloc[t].JUN_IN_NAD_000 - alloc[t].JUN_OUT_SCHED_NAD_000
         + EquityMovementTo(t - 1)

\* C24: for an equity-like instrument the contributed-equity balance at the
\* end of period t is the sum over the periods <= t of capital_in -
\* scheduled_out (the full declared distribution, whatever part of it was
\* paid in cash), and the junior liability balance is 0 in every period.
C24_EquityLikeBalances ==
    classification = "equity_like" =>
        \A t \in DOMAIN alloc :
            /\ alloc[t].junior_equity_eop = EquityMovementTo(t)
            /\ alloc[t].junior_liab_eop = 0

\* An equity-like instrument with a distribution paid in part only, and a
\* second period behind it.
C24_Witness ==
    /\ pc = "returned"
    /\ classification = "equity_like"
    /\ \E t \in DOMAIN alloc :
          /\ t < Len(alloc)
          /\ alloc[t].actual_out > 0
          /\ alloc[t].actual_out < alloc[t].JUN_OUT_SCHED_NAD_000
          /\ alloc[t].junior_equity_eop
                 = alloc[t].JUN_IN_NAD_000 - alloc[t].JUN_OUT_SCHED_NAD_000
                   + (IF t = 1 THEN 0 ELSE alloc[t - 1].junior_equity_eop)


---------------------------------------------------------------------------
RECURSIVE LiabilityMovementTo(_)
\* Sum over the periods <= t of draws + PIK - conversion.
LiabilityMovementTo(t) ==
    IF t = 0 THEN 0
    ELSE alloc[t].JUN_IN_NAD_000 + alloc[t].JUN_PIK_NAD_000
         - alloc[t].JUN_CONVERT_NAD_000 + LiabilityMovementTo(t - 1)

RECURSIVE NetCffTo(_)
\* Sum over the periods <= t of the junior net financing cash flow.
NetCffTo(t) == IF t = 0 THEN 0 ELSE alloc[t].CFF_NAD_000 + NetCffTo(t - 1)

\* The balance of `field` at the end of the period before t.
OpeningOf(field, t) == IF t = 1 THEN 0 ELSE alloc[t - 1][field]

\* C25: for a debt-like instrument the junior liability balance at the end
\* of period t is the sum over the periods <= t of draws + PIK - conversion;
\* a conversion of amount c in a period lowers the liability by c and raises
\* the equity balance by c, and cash, net CFF and the payable are what the
\* capital-in and distribution flows alone make them.
C25_DebtLikeLiability ==
    classification = "debt_like" =>
        \A t \in DOMAIN alloc :
            LET c == alloc[t].JUN_CONVERT_NAD_000
            IN  /\ alloc[t].junior_liab_eop = LiabilityMovementTo(t)
                /\ alloc[t].junior_liab_eop
                       = OpeningOf("junior_liab_eop", t) + alloc[t].JUN_IN_NAD_000
                         + alloc[t].JUN_PIK_NAD_000 - c
                /\ alloc[t].junior_equity_eop
                       = OpeningOf("junior_equity_eop", t) + alloc[t].JUN_IN_NAD_000
                         - alloc[t].JUN_OUT_SCHED_NAD_000 + c
                /\ alloc[t].CFF_NAD_000
                       = alloc[t].JUN_IN_NAD_000
                         - Min(alloc[t].JUN_OUT_SCHED_NAD_000, alloc[t].available)
                /\ alloc[t].Cash_And_Equivalents_NAD_000
                       = alloc[t].m6.Cash_and_Cash_Equivalents_NAD_000 + NetCffTo(t)
                /\ alloc[t].payable_eop
                       = OpeningOf("payable_eop", t) + alloc[t].JUN_OUT_SCHED_NAD_000
                         - Min(alloc[t].JUN_OUT_SCHED_NAD_000, alloc[t].available)

\* A note drawn in the first period and converted in part in the second,
\* a period without any cash flow of the junior layer.
C25_Witness ==
    /\ pc = "returned"
    /\ classification = "debt_like"
    /\ \E t \in DOMAIN alloc :
          /\ t > 1
          /\ alloc[t].JUN_CONVERT_NAD_000 > 0
          /\ alloc[t - 1].junior_liab_eop > 0
          /\ alloc[t].junior_liab_eop
                 = alloc[t - 1].junior_liab_eop - alloc[t].JUN_CONVERT_NAD_000
          /\ alloc[t].junior_equity_eop
                 = alloc[t - 1].junior_equity_eop + alloc[t].JUN_CONVERT_NAD_000
          /\ alloc[t].CFF_NAD_000 = 0
          /\ alloc[t].payable_eop = alloc[t - 1].payable_eop


---------------------------------------------------------------------------
\* C26: when the M3 schedule is present, as run_m3 emits it, the senior
\* debt service subtracted in period t is the interest plus the principal
\* repayment that the schedule records for period t.
C26_SeniorServiceFromM3 ==
    df_m3 = M3AsEmitted =>
        \A t \in DOMAIN alloc :
            alloc[t].senior_service = alloc[t].m3_interest + alloc[t].m3_principal


---------------------------------------------------------------------------
\* C27: for a standard loan with principal >= 0 and rate >= 0, in every
\* month of the schedule the principal repayment is >= 0 and the closing
\* balance is between 0 and the principal, under every amortization policy.
C27_BalanceWithinPrincipal ==
    (loan_params.Principal >= 0 /\ loan_params.Rate_Pct >= 0) =>
        \A m \in 1 .. i :
            /\ RLe(Zero, df[m].Principal_Repayment)
            /\ RLe(Zero, df[m].Closing_Balance)
            /\ RLe(df[m].Closing_Balance, principal)

\* A completed schedule of an interest-bearing loan with a month in which
\* part of the balance is repaid and part is left.
C27_Witness ==
    /\ pc = "returned"
    /\ i = horizon
    /\ loan_params.Principal > 0
    /\ loan_params.Rate_Pct > 0
    /\ \E m \in 1 .. i :
          /\ RLt(Zero, df[m].Principal_Repayment)
          /\ RLt(Zero, df[m].Closing_Balance)
          /\ RLt(df[m].Closing_Balance, principal)
    /\ \E m \in 1 .. i : df[m].Closing_Balance = principal


---------------------------------------------------------------------------
\* C28: for an equity-like instrument, in every period the junior cash
\* added to the rebuilt cash balance so far (the sum of the net junior CFF
\* over the periods <= t) is the contributed-equity balance plus the
\* payable balance at the end of period t.
C28_JuniorCashIsEquityPlusPayable ==
    classification = "equity_like" =>
        \A t \in DOMAIN alloc :
            /\ NetCffTo(t) = alloc[t].junior_equity_eop + alloc[t].payable_eop
            /\ alloc[t].Cash_And_Equivalents_NAD_000
                   - alloc[t].m6.Cash_and_Cash_Equivalents_NAD_000
                   = alloc[t].junior_equity_eop + alloc[t].payable_eop

\* An equity-like instrument that has received capital and carries a
\* payable at the end of the last period.
C28_Witness ==
    /\ pc = "returned"
    /\ classification = "equity_like"
    /\ alloc[Len(alloc)].payable_eop > 0
    /\ alloc[Len(alloc)].junior_equity_eop # 0
    /\ NetCffTo(Len(alloc)) > 0
    /\ \E t \in DOMAIN alloc : alloc[t].actual_out > 0


---------------------------------------------------------------------------
\* C29: for a debt-like instrument, a capital-in flow of amount x in a
\* period raises the junior liability balance by x and leaves the junior
\* equity balance unchanged: the equity balance moves by the period's
\* conversions and declared distributions only.
C29_DrawLeavesEquity ==
    classification = "debt_like" =>
        \A t \in DOMAIN alloc :
            /\ alloc[t].junior_liab_eop
                   = OpeningOf("junior_liab_eop", t) + alloc[t].JUN_IN_NAD_000
                     + alloc[t].JUN_PIK_NAD_000 - alloc[t].JUN_CONVERT_NAD_000
            /\ alloc[t].junior_equity_eop
                   = OpeningOf("junior_equity_eop", t) + alloc[t].JUN_CONVERT_NAD_000
                     - alloc[t].JUN_OUT_SCHED_NAD_000


---------------------------------------------------------------------------
\* C30: in the revolver schedule run_m3 builds, whatever the monthly CAPEX
\* and operating cash flows, the balance is never negative, the repayment of
\* a month never exceeds that month's opening balance, and a draw and a
\* repayment are never both positive in the same month.
C30_RevolverBounds ==
    \A k \in DOMAIN records :
        /\ RLe(Zero, records[k].Revolver_Open_Balance_NAD_000)
        /\ RLe(Zero, records[k].Revolver_Close_Balance_NAD_000)
        /\ RLe(records[k].Revolver_Repayment_NAD_000,
               records[k].Revolver_Open_Balance_NAD_000)
        /\ ~(/\ RLt(Zero, records[k].Revolver_Draw_NAD_000)
             /\ RLt(Zero, records[k].Revolver_Repayment_NAD_000))

\* A built schedule with a month that draws, a month that repays part of
\* the balance and a month that repays all of it.
C30_Witness ==
    /\ pc = "returned"
    /\ \E k \in DOMAIN records : RLt(Zero, records[k].Revolver_Draw_NAD_000)
    /\ \E k \in DOMAIN records :
          /\ RLt(Zero, records[k].Revolver_Repayment_NAD_000)
          /\ RLt(Zero, records[k].Revolver_Close_Balance_NAD_000)
    /\ \E k \in DOMAIN records :
          /\ RLt(Zero, records[k].Revolver_Repayment_NAD_000)
          /\ records[k].Revolver_Close_Balance_NAD_000 = Zero

=============================================================================
